---------------------------- MODULE Spec2Model ----------------------------
(***************************************************************************)
(* A model of the DocString server: the line-based Python scanner          *)
(* (PythonParser.parseFunctions, validatePythonSyntax,                     *)
(* extractCodeWithoutDocstrings), the in-memory store (MemStorage) and the *)
(* request handlers of registerRoutes.                                     *)
(*                                                                         *)
(* Text is a sequence of one-character strings; a source text holds "\n"  *)
(* characters and is cut into physical lines by Split, as code.split does. *)
(* Line numbers inside the TypeScript loops are 0-indexed; the operators   *)
(* below index sequences from 1 and say where they convert.                *)
(***************************************************************************)
EXTENDS Integers, Sequences, FiniteSets, TLC

VARIABLES
    code,           \* the source text handed to the scanner
    functions,      \* the last result of parseFunctions(code)
    baseFunctions,  \* the result of parseFunctions on the text as first given
    parsed,         \* whether functions is the result for the current code
    pads,           \* how many "\n" have been appended to the text first given
    validation,     \* the last result of validatePythonSyntax(code)
    validated,      \* whether validation is the result for the current code
    stripped,       \* the result of extractCodeWithoutDocstrings(code)
    strippedTwice,  \* the result of extractCodeWithoutDocstrings(stripped)
    extractions,    \* how many times extractCodeWithoutDocstrings was applied
    run,            \* the frame of a scanner call run one loop iteration at a time
    docstringGenerations,  \* MemStorage.docstringGenerations, in insertion order
    nextUuid,       \* the identifiers randomUUID has handed out so far, plus one
    clock,          \* the time new Date() last read
    req,            \* the POST /api/generate-docstring requests in flight
    started,        \* how many generate-docstring requests have been received
    issued,         \* what each successful generate-docstring response carried
    lastResponse    \* the response of the last request served without suspending

extractVars == <<stripped, strippedTwice, extractions>>

textVars ==
    <<code, functions, baseFunctions, parsed, pads, validation, validated,
      extractVars>>

scanVars == <<textVars, run>>

serverVars ==
    <<docstringGenerations, nextUuid, clock, req, started, issued, lastResponse>>

vars == <<scanVars, serverVars>>

-----------------------------------------------------------------------------
(* Bounds of the model. *)

MaxLines == 3       \* physical lines of an input text built from a line pool
MaxPad == 1         \* trailing newlines appended to an input text
MaxRequests == 2    \* generate-docstring requests received in one behaviour

-----------------------------------------------------------------------------
(* Characters and strings (String.prototype methods used by the scanner). *)

Whitespace == {" ", "\t"}

Digits == {"0", "1", "2", "3", "4", "5", "6", "7", "8", "9"}

Letters ==
    {"a", "b", "c", "d", "e", "f", "g", "h", "i", "j", "k", "l", "m",
     "n", "o", "p", "q", "r", "s", "t", "u", "v", "w", "x", "y", "z",
     "A", "B", "C", "D", "E", "F", "G", "H", "I", "J", "K", "L", "M",
     "N", "O", "P", "Q", "R", "S", "T", "U", "V", "W", "X", "Y", "Z"}

\* [a-zA-Z_]
IdStart == Letters \cup {"_"}

\* [a-zA-Z0-9_]
IdChar == Letters \cup Digits \cup {"_"}

MinOf(S) == CHOOSE x \in S : \A y \in S : x <= y

MaxOf(S) == CHOOSE x \in S : \A y \in S : y <= x

\* The number of consecutive characters of class C in s from index from on.
RunLen(s, from, C) ==
    MinOf({k \in from..(Len(s) + 1) : k = Len(s) + 1 \/ s[k] \notin C}) - from

\* line.match(/^(\s*)/)[1].length
getIndentLevel(line) == RunLen(line, 1, Whitespace)

\* s.trim()
Trim(s) ==
    IF \A k \in 1..Len(s) : s[k] \in Whitespace
    THEN <<>>
    ELSE SubSeq(s, getIndentLevel(s) + 1,
                MaxOf({k \in 1..Len(s) : s[k] \notin Whitespace}))

\* s.startsWith(p)
StartsWith(s, p) == Len(s) >= Len(p) /\ SubSeq(s, 1, Len(p)) = p

\* s.endsWith(p)
EndsWith(s, p) ==
    Len(s) >= Len(p) /\ SubSeq(s, Len(s) - Len(p) + 1, Len(s)) = p

\* (s.match(/c/g) || []).length
Count(s, c) == Cardinality({k \in 1..Len(s) : s[k] = c})

\* s.includes(c)
Includes(s, c) == \E k \in 1..Len(s) : s[k] = c

\* s.replace(c, ''): only the first occurrence of c is removed.
ReplaceFirst(s, c) ==
    IF Includes(s, c)
    THEN LET k == MinOf({m \in 1..Len(s) : s[m] = c})
         IN  SubSeq(s, 1, k - 1) \o SubSeq(s, k + 1, Len(s))
    ELSE s

\* text.split('\n'): always at least one line; the lines hold no "\n".
RECURSIVE Split(_)
Split(text) ==
    IF Includes(text, "\n")
    THEN LET k == MinOf({m \in 1..Len(text) : text[m] = "\n"})
         IN  <<SubSeq(text, 1, k - 1)>> \o Split(SubSeq(text, k + 1, Len(text)))
    ELSE <<text>>

\* lines.join('\n'): the empty array joins to the empty string.
RECURSIVE Join(_)
Join(lines) ==
    IF Len(lines) = 0 THEN <<>>
    ELSE IF Len(lines) = 1 THEN lines[1]
    ELSE lines[1] \o <<"\n">> \o Join(Tail(lines))

TripleDouble == <<"\"", "\"", "\"">>

TripleSingle == <<"'", "'", "'">>

DefPrefix == <<"d", "e", "f", " ">>

ClassPrefix == <<"c", "l", "a", "s", "s", " ">>

MainPrefix == <<"i", "f", " ", "_", "_", "n", "a", "m", "e", "_", "_">>

-----------------------------------------------------------------------------
(* Input texts of the scanner: every text of 1..MaxLines lines of a pool.  *)

TextsOf(pool, n) == {Join(ls) : ls \in UNION {[1..k -> pool] : k \in 1..n}}

ParseLines ==
    { <<"d", "e", "f", " ", "f", "(", "a", ",">>,
      <<" ", " ", " ", " ", " ", " ", "b", ")", ":">>,
      <<" ", " ", " ", " ", "\"", "\"", "\"", "d", "\"", "\"", "\"">>,
      <<" ", " ", " ", " ", "p", "a", "s", "s">>,
      <<>>,
      <<"d", "e", "f", " ", "g", "(", "a", ":", " ", "b", ")", ":">>,
      <<" ", " ", " ", " ", "d", "e", "f", " ", "h", "(", ")", ":">>,
      <<"c", "l", "a", "s", "s", " ", "C", ":">>,
      <<"x", " ", "=", " ", "1">>,
      <<"d", "e", "f", "\t", "k", "(", ")", ":">>,
      <<"d", "e", "f", " ", "m", "(", ")">>,
      <<"i", "f", " ", "_", "_", "n", "a", "m", "e", "_", "_", ":">> }

ParseInputs == TextsOf(ParseLines, MaxLines)

ValidateLines ==
    { <<"i", "f", " ", "x", ":">>,
      <<"p", "a", "s", "s">>,
      <<" ", " ", " ", " ", "p", "a", "s", "s">>,
      <<>>,
      <<"x", " ", "=", " ", "(", "1">>,
      <<")", "(">>,
      <<"(", "[", ")", "]">>,
      <<"[", "{">>,
      <<"}">>,
      <<"]">>,
      <<"s", " ", "=", " ", "\"", "\\", "\"", "(", "\"">>,
      <<"s", " ", "=", " ", "\"", "\\", "\"", "\\", "(", "\"">>,
      <<"#", " ", "a", ":">>,
      <<"x", " ", "=", " ", "1", " ", "#", " ", "a", ":">>,
      <<" ", " ", " ", " ", "\"", "\"", "\"", "d", ":">>,
      <<"t", " ", "=", " ", "\"", "(", "\"", " ", "#", " ", ")">> }

ValidateInputs == TextsOf(ValidateLines, MaxLines)

ExtractLines ==
    { <<"d", "e", "f", " ", "f", "(", ")", ":">>,
      <<" ", " ", " ", " ", "\"", "\"", "\"", "d", "\"", "\"", "\"">>,
      <<" ", " ", " ", " ", "\"", "\"", "\"">>,
      <<" ", " ", " ", " ", "d">>,
      <<" ", " ", " ", " ", "d", "\"", "\"", "\"">>,
      <<" ", " ", " ", " ", "'", "'", "'">>,
      <<" ", " ", " ", " ", "p", "a", "s", "s">>,
      <<>>,
      <<"x", " ", "=", " ", "\"", "\"", "\"">> }

ExtractInputs == TextsOf(ExtractLines, MaxLines)

RunLines ==
    { <<"d", "e", "f", " ", "f", "(", "a", ",">>,
      <<"d", "e", "f", " ", "m", "(", ")">>,
      <<"d", "e", "f", " ", "g", "(", ")", ":">>,
      <<" ", " ", " ", " ", "\"", "\"", "\"", "d", "\"", "\"", "\"">>,
      <<>>,
      <<"i", "f", " ", "x", ":">>,
      <<" ", " ", " ", " ", "p", "a", "s", "s">> }

RunInputs == TextsOf(RunLines, MaxLines)

\* The texts the requests of the server carry: a function with its body, a
\* text without a function, a missing indented block, an open parenthesis.
DefWithBody ==
    Join(<< <<"d", "e", "f", " ", "g", "(", "a", ":", " ", "b", ")", ":">>,
            <<" ", " ", " ", " ", "p", "a", "s", "s">> >>)

TwoLineHeader ==
    Join(<< <<"d", "e", "f", " ", "f", "(", "a", ",">>,
            <<" ", " ", " ", " ", " ", " ", "b", ")", ":">>,
            <<" ", " ", " ", " ", "p", "a", "s", "s">> >>)

NoFunction == <<"x", " ", "=", " ", "1">>

MissingBlock == Join(<< <<"i", "f", " ", "x", ":">>, <<"p", "a", "s", "s">> >>)

OpenParenthesis ==
    Join(<< <<"d", "e", "f", " ", "f", "(", "a", ",">>,
            <<" ", " ", " ", " ", "p", "a", "s", "s">> >>)

\* The bodies of POST /api/generate-docstring: the texts above and one body
\* the schema rejects for its empty code.
RequestBodies ==
    { [code |-> DefWithBody, format |-> "google", filename |-> "a.py"],
      [code |-> TwoLineHeader, format |-> "numpy", filename |-> ""],
      [code |-> NoFunction, format |-> "sphinx", filename |-> ""],
      [code |-> MissingBlock, format |-> "google", filename |-> ""],
      [code |-> OpenParenthesis, format |-> "numpy", filename |-> "b.py"],
      [code |-> <<>>, format |-> "google", filename |-> ""] }

DefAlone == <<"d", "e", "f", " ", "f", "(", ")", ":">>

\* The bodies of requests in flight together: those above and one more the
\* handler accepts, with a code of its own.
ConcurrentBodies ==
    RequestBodies \cup {[code |-> DefAlone, format |-> "sphinx", filename |-> "c.py"]}

\* The uploads of POST /api/upload-file: none, a text the validator accepts
\* and one it rejects.
Uploads ==
    { [hasFile |-> FALSE, content |-> <<>>],
      [hasFile |-> TRUE, content |-> DefWithBody],
      [hasFile |-> TRUE, content |-> MissingBlock] }

\* The code of POST /api/validate-python: none, an accepted text, a rejected
\* text without a def line and a rejected text with one.
ValidateTexts == {<<>>, DefWithBody, MissingBlock, OpenParenthesis}

\* The identifiers a client asks for: those randomUUID can hand out within
\* the bound, and one more that is never handed out.
RequestIds == 1..(MaxRequests + 1)

\* The limit parameters of GET /api/recent-generations: none, a text that is
\* not a number, zero, one, one with text after it, and a negative number.
LimitQueries ==
    { [present |-> FALSE, text |-> <<>>],
      [present |-> TRUE, text |-> <<"x">>],
      [present |-> TRUE, text |-> <<"0">>],
      [present |-> TRUE, text |-> <<"1">>],
      [present |-> TRUE, text |-> <<" ", "1", "x">>],
      [present |-> TRUE, text |-> <<"-", "1">>] }

-----------------------------------------------------------------------------
(* PythonParser.parseFunctions *)

\* line.match(/^def\s+([a-zA-Z_][a-zA-Z0-9_]*)\s*\(/): the captured name, or
\* the empty sequence when the line does not match (a name is never empty).
\* The character classes are disjoint, so the greedy runs are the only match.
functionMatch(line) ==
    IF ~StartsWith(line, <<"d", "e", "f">>) THEN <<>>
    ELSE LET ws1 == RunLen(line, 4, Whitespace)
             p == 4 + ws1
         IN  IF ws1 = 0 \/ p > Len(line) THEN <<>>
             ELSE IF line[p] \notin IdStart THEN <<>>
             ELSE LET n == RunLen(line, p, IdChar)
                      q == p + n + RunLen(line, p + n, Whitespace)
                  IN  IF q <= Len(line) /\ line[q] = "(" THEN SubSeq(line, p, p + n - 1)
                      ELSE <<>>

\* hasDocstringAt with the next line tested as it stands, not trimmed.
hasDocstringAtUntrimmed(lines, i) ==
    IF i + 1 <= Len(lines)
    THEN LET nextLine == lines[i + 1]
         IN  StartsWith(nextLine, TripleDouble) \/ StartsWith(nextLine, TripleSingle)
    ELSE FALSE

\* The docstring test on the line after the def line. i is the 1-indexed
\* position of the def line, so lines[i + 1] is the source's lines[i + 1].
hasDocstringAt(lines, i) ==
    IF i + 1 <= Len(lines)
    THEN LET nextLine == Trim(lines[i + 1])
         IN  StartsWith(nextLine, TripleDouble) \/ StartsWith(nextLine, TripleSingle)
    ELSE FALSE

\* The test that ends the body scan at currentLine.
endsBody(currentLine, indentLevel) ==
    /\ getIndentLevel(currentLine) <= indentLevel
    /\ \/ StartsWith(Trim(currentLine), DefPrefix)
       \/ StartsWith(Trim(currentLine), ClassPrefix)
       \/ StartsWith(Trim(currentLine), MainPrefix)

\* endLineScan with the terminating assignment one line too low.
RECURSIVE endLineScanLow(_, _, _, _)
endLineScanLow(lines, j, indentLevel, trace) ==
    IF j > Len(lines) THEN trace
    ELSE IF Trim(lines[j]) = <<>>
         THEN endLineScanLow(lines, j + 1, indentLevel, trace)
    ELSE IF endsBody(lines[j], indentLevel)
         THEN Append(trace, j - 2)
    ELSE endLineScanLow(lines, j + 1, indentLevel, Append(trace, j))

\* endLineScan with endLine set to the number of the terminating line.
RECURSIVE endLineScanAtTerminator(_, _, _, _)
endLineScanAtTerminator(lines, j, indentLevel, trace) ==
    IF j > Len(lines) THEN trace
    ELSE IF Trim(lines[j]) = <<>>
         THEN endLineScanAtTerminator(lines, j + 1, indentLevel, trace)
    ELSE IF endsBody(lines[j], indentLevel)
         THEN Append(trace, j)
    ELSE endLineScanAtTerminator(lines, j + 1, indentLevel, Append(trace, j))

\* endLineScan with blank lines not skipped.
RECURSIVE endLineScanCountsBlank(_, _, _, _)
endLineScanCountsBlank(lines, j, indentLevel, trace) ==
    IF j > Len(lines) THEN trace
    ELSE IF endsBody(lines[j], indentLevel)
         THEN Append(trace, j - 1)
    ELSE endLineScanCountsBlank(lines, j + 1, indentLevel, Append(trace, j))

\* The body-end loop from the 1-indexed line j on. trace holds every value
\* endLine has had, the initial one first. The source's j is j - 1 here, so
\* its "endLine = j" is j - 1 and its "endLine = j + 1" is j.
RECURSIVE endLineScan(_, _, _, _)
endLineScan(lines, j, indentLevel, trace) ==
    IF j > Len(lines) THEN trace
    ELSE IF Trim(lines[j]) = <<>>
         THEN endLineScan(lines, j + 1, indentLevel, trace)
    ELSE IF endsBody(lines[j], indentLevel)
         THEN Append(trace, j - 1)
    ELSE endLineScan(lines, j + 1, indentLevel, Append(trace, j))

\* Every value of endLine for the def at the 1-indexed line i.
endLineTrace(lines, i) ==
    endLineScan(lines, i + 1, getIndentLevel(lines[i]), <<i>>)

parenDelta(s) == Count(s, "(") - Count(s, ")")

\* reassemble with the loop test joined by "and" instead of "or".
RECURSIVE reassembleBoth(_, _, _, _)
reassembleBoth(lines, j, signature, parenCount) ==
    IF j <= Len(lines) /\ (parenCount > 0 /\ ~Includes(signature, ":"))
    THEN LET nextLine == Trim(lines[j])
         IN  reassembleBoth(lines, j + 1, signature \o <<" ">> \o nextLine,
                            parenCount + parenDelta(nextLine))
    ELSE signature

\* The signature loop from the 1-indexed line j on.
RECURSIVE reassemble(_, _, _, _)
reassemble(lines, j, signature, parenCount) ==
    IF j <= Len(lines) /\ (parenCount > 0 \/ ~Includes(signature, ":"))
    THEN LET nextLine == Trim(lines[j])
         IN  reassemble(lines, j + 1, signature \o <<" ">> \o nextLine,
                        parenCount + parenDelta(nextLine))
    ELSE signature

\* The accumulated header text of the def at line i, before the colon is cut.
fullSignature(lines, i) ==
    reassemble(lines, i + 1, Trim(lines[i]), parenDelta(Trim(lines[i])))

\* signature.replace(':', '')
stripColon(signature) == ReplaceFirst(signature, ":")

\* The descriptor pushed for the def at the 1-indexed line i.
descriptor(lines, i) ==
    LET trace == endLineTrace(lines, i)
    IN  [name |-> functionMatch(Trim(lines[i])),
         startLine |-> i,
         endLine |-> trace[Len(trace)],
         signature |-> stripColon(fullSignature(lines, i)),
         hasDocstring |-> hasDocstringAt(lines, i)]

\* parseLoop with the outer cursor moved past the body that was scanned.
RECURSIVE parseLoopSkipsBody(_, _, _)
parseLoopSkipsBody(lines, i, acc) ==
    IF i > Len(lines) THEN acc
    ELSE IF functionMatch(Trim(lines[i])) # <<>>
         THEN parseLoopSkipsBody(lines, descriptor(lines, i).endLine + 1,
                                 Append(acc, descriptor(lines, i)))
    ELSE parseLoopSkipsBody(lines, i + 1, acc)

\* The outer loop from the 1-indexed line i on.
RECURSIVE parseLoop(_, _, _)
parseLoop(lines, i, acc) ==
    IF i > Len(lines) THEN acc
    ELSE IF functionMatch(Trim(lines[i])) # <<>>
         THEN parseLoop(lines, i + 1, Append(acc, descriptor(lines, i)))
    ELSE parseLoop(lines, i + 1, acc)

parseFunctions(text) == parseLoop(Split(text), 1, <<>>)

-----------------------------------------------------------------------------
(* PythonParser.validatePythonSyntax *)

DigitChar == <<"0", "1", "2", "3", "4", "5", "6", "7", "8", "9">>

\* The decimal text of a natural number, as a template literal prints it.
RECURSIVE Dec(_)
Dec(n) ==
    IF n < 10 THEN <<DigitChar[n + 1]>>
    ELSE Dec(n \div 10) \o <<DigitChar[(n % 10) + 1]>>

\* `Line ${n}: Expected indented block after '${trimmed}'`
indentMessage(n, trimmed) ==
    <<"L", "i", "n", "e", " ">> \o Dec(n)
      \o <<":", " ", "E", "x", "p", "e", "c", "t", "e", "d", " ", "i", "n", "d",
           "e", "n", "t", "e", "d", " ", "b", "l", "o", "c", "k", " ", "a", "f",
           "t", "e", "r", " ", "'">>
      \o trimmed \o <<"'">>

UnmatchedParentheses ==
    <<"U", "n", "m", "a", "t", "c", "h", "e", "d", " ", "p", "a", "r", "e", "n",
      "t", "h", "e", "s", "e", "s", " ", "i", "n", " ", "c", "o", "d", "e">>

UnmatchedSquareBrackets ==
    <<"U", "n", "m", "a", "t", "c", "h", "e", "d", " ", "s", "q", "u", "a", "r",
      "e", " ", "b", "r", "a", "c", "k", "e", "t", "s", " ", "i", "n", " ", "c",
      "o", "d", "e">>

UnmatchedCurlyBraces ==
    <<"U", "n", "m", "a", "t", "c", "h", "e", "d", " ", "c", "u", "r", "l", "y",
      " ", "b", "r", "a", "c", "e", "s", " ", "i", "n", " ", "c", "o", "d", "e">>

\* { isValid: true }: error is undefined, written as the empty text here (no
\* message of the validator is empty).
Valid == [isValid |-> TRUE, error |-> <<>>]

Invalid(reason) == [isValid |-> FALSE, error |-> reason]

ZeroCounts == [paren |-> 0, bracket |-> 0, brace |-> 0]

\* countChar with a closer that has no opener before it left out of the
\* balance.
countCharMatchesOpener(counts, char) ==
    IF char = "(" THEN [counts EXCEPT !.paren = @ + 1]
    ELSE IF char = ")" THEN [counts EXCEPT !.paren = IF @ > 0 THEN @ - 1 ELSE @]
    ELSE IF char = "[" THEN [counts EXCEPT !.bracket = @ + 1]
    ELSE IF char = "]" THEN [counts EXCEPT !.bracket = IF @ > 0 THEN @ - 1 ELSE @]
    ELSE IF char = "{" THEN [counts EXCEPT !.brace = @ + 1]
    ELSE IF char = "}" THEN [counts EXCEPT !.brace = IF @ > 0 THEN @ - 1 ELSE @]
    ELSE counts

\* The six-way bracket test on one character.
countChar(counts, char) ==
    IF char = "(" THEN [counts EXCEPT !.paren = @ + 1]
    ELSE IF char = ")" THEN [counts EXCEPT !.paren = @ - 1]
    ELSE IF char = "[" THEN [counts EXCEPT !.bracket = @ + 1]
    ELSE IF char = "]" THEN [counts EXCEPT !.bracket = @ - 1]
    ELSE IF char = "{" THEN [counts EXCEPT !.brace = @ + 1]
    ELSE IF char = "}" THEN [counts EXCEPT !.brace = @ - 1]
    ELSE counts

\* The character loop over a trimmed line from the 1-indexed position j on.
\* stringChar is the empty text while outside a string. The loop leaves at a
\* # met outside a string (inComment is never true inside the loop).
RECURSIVE scanChars(_, _, _, _, _)
scanChars(trimmed, j, inString, stringChar, counts) ==
    IF j > Len(trimmed) THEN counts
    ELSE LET char == trimmed[j]
         IN  IF ~inString /\ char = "#" THEN counts
             ELSE LET isQuote == char = "\"" \/ char = "'"
                      opens == isQuote /\ ~inString
                      closes == isQuote /\ inString /\ <<char>> = stringChar
                      inString2 == IF opens THEN TRUE
                                   ELSE IF closes THEN FALSE
                                   ELSE inString
                      stringChar2 == IF opens THEN <<char>>
                                     ELSE IF closes THEN <<>>
                                     ELSE stringChar
                  IN  scanChars(trimmed, j + 1, inString2, stringChar2,
                                IF ~inString2 THEN countChar(counts, char)
                                ELSE counts)

\* The 1-indexed position of the first line after line i that is not blank,
\* or Len(ls) + 1 when there is none.
nextNonEmptyLine(ls, i) ==
    MinOf({k \in (i + 1)..(Len(ls) + 1) : k = Len(ls) + 1 \/ Trim(ls[k]) # <<>>})

\* missingBlock with the indentation compared by "less than".
missingBlockStrict(ls, i) ==
    LET trimmed == Trim(ls[i])
        next == nextNonEmptyLine(ls, i)
    IN  /\ EndsWith(trimmed, <<":">>)
        /\ ~StartsWith(trimmed, <<"#">>)
        /\ next <= Len(ls)
        /\ getIndentLevel(ls[next]) < getIndentLevel(ls[i])

\* The indentation test on the 1-indexed line i: true when the function
\* returns the indentation reason at this line.
missingBlock(ls, i) ==
    LET trimmed == Trim(ls[i])
        next == nextNonEmptyLine(ls, i)
    IN  /\ EndsWith(trimmed, <<":">>)
        /\ ~StartsWith(trimmed, <<"#">>)
        /\ next <= Len(ls)
        /\ getIndentLevel(ls[next]) <= getIndentLevel(ls[i])

\* finalChecks with the three tests in the opposite order.
finalChecksBracesFirst(counts) ==
    IF counts.brace # 0 THEN Invalid(UnmatchedCurlyBraces)
    ELSE IF counts.bracket # 0 THEN Invalid(UnmatchedSquareBrackets)
    ELSE IF counts.paren # 0 THEN Invalid(UnmatchedParentheses)
    ELSE Valid

\* The checks made after the line loop, in the order of the source.
finalChecks(counts) ==
    IF counts.paren # 0 THEN Invalid(UnmatchedParentheses)
    ELSE IF counts.bracket # 0 THEN Invalid(UnmatchedSquareBrackets)
    ELSE IF counts.brace # 0 THEN Invalid(UnmatchedCurlyBraces)
    ELSE Valid

\* validateLoop with the reason naming the 0-indexed line.
RECURSIVE validateLoopZeroIndexed(_, _, _)
validateLoopZeroIndexed(ls, i, counts) ==
    IF i > Len(ls) THEN finalChecks(counts)
    ELSE IF Trim(ls[i]) = <<>> THEN validateLoopZeroIndexed(ls, i + 1, counts)
    ELSE LET counts2 == scanChars(Trim(ls[i]), 1, FALSE, <<>>, counts)
         IN  IF missingBlock(ls, i)
             THEN Invalid(indentMessage(i - 1, Trim(ls[i])))
             ELSE validateLoopZeroIndexed(ls, i + 1, counts2)

\* validateLoop with the balances tested before a missing block is reported.
RECURSIVE validateLoopBalancesFirst(_, _, _)
validateLoopBalancesFirst(ls, i, counts) ==
    IF i > Len(ls) THEN finalChecks(counts)
    ELSE IF Trim(ls[i]) = <<>> THEN validateLoopBalancesFirst(ls, i + 1, counts)
    ELSE LET counts2 == scanChars(Trim(ls[i]), 1, FALSE, <<>>, counts)
         IN  IF missingBlock(ls, i)
             THEN IF finalChecks(counts2) # Valid THEN finalChecks(counts2)
                  ELSE Invalid(indentMessage(i, Trim(ls[i])))
             ELSE validateLoopBalancesFirst(ls, i + 1, counts2)

\* The line loop from the 1-indexed line i on; the reason names line i, which
\* is the source's i + 1.
RECURSIVE validateLoop(_, _, _)
validateLoop(ls, i, counts) ==
    IF i > Len(ls) THEN finalChecks(counts)
    ELSE IF Trim(ls[i]) = <<>> THEN validateLoop(ls, i + 1, counts)
    ELSE LET counts2 == scanChars(Trim(ls[i]), 1, FALSE, <<>>, counts)
         IN  IF missingBlock(ls, i)
             THEN Invalid(indentMessage(i, Trim(ls[i])))
             ELSE validateLoop(ls, i + 1, counts2)

\* No operation of the loop throws on a string, so the catch branch of the
\* source is never taken.
validatePythonSyntax(text) == validateLoop(Split(text), 1, ZeroCounts)

-----------------------------------------------------------------------------
(* PythonParser.extractCodeWithoutDocstrings *)

\* The trimmed line starts with three double or three single quotes.
startsTriple(trimmed) ==
    StartsWith(trimmed, TripleDouble) \/ StartsWith(trimmed, TripleSingle)

\* extractLoop with the closing line of a docstring kept.
RECURSIVE extractLoopKeepsClosing(_, _, _, _, _)
extractLoopKeepsClosing(ls, k, inDocstring, docstringQuote, result) ==
    IF k > Len(ls) THEN result
    ELSE LET trimmed == Trim(ls[k])
             quote == IF StartsWith(trimmed, TripleDouble) THEN TripleDouble
                      ELSE TripleSingle
         IN  IF ~inDocstring /\ startsTriple(trimmed)
             THEN extractLoopKeepsClosing(ls, k + 1,
                      ~(Len(trimmed) > 3 /\ EndsWith(trimmed, quote)), quote, result)
             ELSE IF inDocstring /\ EndsWith(trimmed, docstringQuote)
             THEN extractLoopKeepsClosing(ls, k + 1, FALSE, docstringQuote,
                                         Append(result, ls[k]))
             ELSE extractLoopKeepsClosing(ls, k + 1, inDocstring, docstringQuote,
                      IF ~inDocstring THEN Append(result, ls[k]) ELSE result)

\* extractLoop with the trimmed text of a line kept in place of the line.
RECURSIVE extractLoopKeepsTrimmed(_, _, _, _, _)
extractLoopKeepsTrimmed(ls, k, inDocstring, docstringQuote, result) ==
    IF k > Len(ls) THEN result
    ELSE LET trimmed == Trim(ls[k])
             quote == IF StartsWith(trimmed, TripleDouble) THEN TripleDouble
                      ELSE TripleSingle
         IN  IF ~inDocstring /\ startsTriple(trimmed)
             THEN extractLoopKeepsTrimmed(ls, k + 1,
                      ~(Len(trimmed) > 3 /\ EndsWith(trimmed, quote)), quote, result)
             ELSE IF inDocstring /\ EndsWith(trimmed, docstringQuote)
             THEN extractLoopKeepsTrimmed(ls, k + 1, FALSE, docstringQuote, result)
             ELSE extractLoopKeepsTrimmed(ls, k + 1, inDocstring, docstringQuote,
                      IF ~inDocstring THEN Append(result, trimmed) ELSE result)

\* extractLoop with a docstring closed by a line that ends with either
\* delimiter.
RECURSIVE extractLoopEitherCloses(_, _, _, _, _)
extractLoopEitherCloses(ls, k, inDocstring, docstringQuote, result) ==
    IF k > Len(ls) THEN result
    ELSE LET trimmed == Trim(ls[k])
             quote == IF StartsWith(trimmed, TripleDouble) THEN TripleDouble
                      ELSE TripleSingle
         IN  IF ~inDocstring /\ startsTriple(trimmed)
             THEN extractLoopEitherCloses(ls, k + 1,
                      ~(Len(trimmed) > 3 /\ EndsWith(trimmed, quote)), quote, result)
             ELSE IF inDocstring /\ (\/ EndsWith(trimmed, TripleDouble)
                                     \/ EndsWith(trimmed, TripleSingle))
             THEN extractLoopEitherCloses(ls, k + 1, FALSE, docstringQuote, result)
             ELSE extractLoopEitherCloses(ls, k + 1, inDocstring, docstringQuote,
                      IF ~inDocstring THEN Append(result, ls[k]) ELSE result)

\* The line loop from the 1-indexed line k on. docstringQuote is the empty
\* text until a docstring has opened.
RECURSIVE extractLoop(_, _, _, _, _)
extractLoop(ls, k, inDocstring, docstringQuote, result) ==
    IF k > Len(ls) THEN result
    ELSE LET trimmed == Trim(ls[k])
             quote == IF StartsWith(trimmed, TripleDouble) THEN TripleDouble
                      ELSE TripleSingle
         IN  IF ~inDocstring /\ startsTriple(trimmed)
             THEN extractLoop(ls, k + 1,
                      ~(Len(trimmed) > 3 /\ EndsWith(trimmed, quote)), quote, result)
             ELSE IF inDocstring /\ EndsWith(trimmed, docstringQuote)
             THEN extractLoop(ls, k + 1, FALSE, docstringQuote, result)
             ELSE extractLoop(ls, k + 1, inDocstring, docstringQuote,
                      IF ~inDocstring THEN Append(result, ls[k]) ELSE result)

extractCodeWithoutDocstrings(text) ==
    Join(extractLoop(Split(text), 1, FALSE, <<>>, <<>>))

-----------------------------------------------------------------------------
(* The three functions of PythonParser run one loop iteration at a time.   *)
(* A run is the frame of one call: the function, the loop it is in, the    *)
(* 1-indexed cursors and the locals of the source. Reading lines[k] for a  *)
(* k outside the array gives undefined, and calling trim on it throws.     *)

IdleRun ==
    [op |-> "", pc |-> "idle", lines |-> <<>>, i |-> 0, j |-> 0, n |-> 0,
     functions |-> <<>>, functionName |-> <<>>, endLine |-> 0,
     hasDocstring |-> FALSE, signature |-> <<>>, parenCount |-> 0,
     trimmed |-> <<>>, counts |-> ZeroCounts, inString |-> FALSE,
     stringChar |-> <<>>, inDocstring |-> FALSE, docstringQuote |-> <<>>, result |-> <<>>,
     value |-> <<>>]

Operations ==
    {"parseFunctions", "validatePythonSyntax", "extractCodeWithoutDocstrings"}

\* The loop a call enters first.
entry(op) ==
    IF op = "parseFunctions" THEN "outer"
    ELSE IF op = "validatePythonSyntax" THEN "line"
    ELSE "strip"

\* const lines = code.split('\n'), and the first loop at its first line.
callStep(op, ls) ==
    [IdleRun EXCEPT !.op = op, !.pc = entry(op), !.lines = ls, !.i = 1]

\* The frame after "return value".
returns(f, value) == [f EXCEPT !.pc = "returned", !.value = value]

\* The frame after the body of a loop has read lines[k]: the frame next if
\* the array has a line k, and the frame of a TypeError thrown if not.
reading(ls, k, f, next) ==
    IF k \in 1..Len(ls) THEN next ELSE [f EXCEPT !.pc = "raised"]

\* const line = lines[i].trim(); line.match(...): the name captured, the
\* trimmed line being computed once.
matchAt(ls, i) ==
    CHOOSE name \in {functionMatch(line) : line \in {Trim(ls[i])}} : TRUE

\* parseFunctions, the for loop over i: its test, and its body up to the
\* start of the body-end loop.
outerStep(f, ls) ==
    IF f.i > Len(ls) THEN returns(f, f.functions)
    ELSE reading(ls, f.i, f,
             IF matchAt(ls, f.i) = <<>> THEN [f EXCEPT !.i = @ + 1]
             ELSE [f EXCEPT !.functionName = matchAt(ls, f.i),
                            !.endLine = f.i,
                            !.hasDocstring = hasDocstringAt(ls, f.i),
                            !.j = f.i + 1,
                            !.pc = "bodyEnd"])

\* The frame at the start of the signature loop.
signatureStart(f, ls) ==
    [f EXCEPT !.signature = Trim(ls[f.i]),
              !.j = f.i + 1,
              !.parenCount = parenDelta(Trim(ls[f.i])),
              !.pc = "signature"]

\* bodyEndStep with the cursor left where it is at a blank line.
bodyEndStepStaysAtBlank(f, ls) ==
    IF f.j > Len(ls) THEN signatureStart(f, ls)
    ELSE reading(ls, f.j, f,
             IF Trim(ls[f.j]) = <<>> THEN f
             ELSE IF endsBody(ls[f.j], getIndentLevel(ls[f.i]))
                  THEN signatureStart([f EXCEPT !.endLine = f.j - 1], ls)
             ELSE [f EXCEPT !.endLine = f.j, !.j = @ + 1])

\* parseFunctions, one iteration of the for loop over j.
bodyEndStep(f, ls) ==
    IF f.j > Len(ls) THEN signatureStart(f, ls)
    ELSE reading(ls, f.j, f,
             IF Trim(ls[f.j]) = <<>> THEN [f EXCEPT !.j = @ + 1]
             ELSE IF endsBody(ls[f.j], getIndentLevel(ls[f.i]))
                  THEN signatureStart([f EXCEPT !.endLine = f.j - 1], ls)
             ELSE [f EXCEPT !.endLine = f.j, !.j = @ + 1])

\* parseFunctions, one iteration of the while loop, and after it the push
\* of the descriptor and the next i.
signatureStep(f, ls) ==
    IF f.j <= Len(ls) /\ (f.parenCount > 0 \/ ~Includes(f.signature, ":"))
    THEN reading(ls, f.j, f,
             [f EXCEPT !.signature = @ \o <<" ">> \o Trim(ls[f.j]),
                       !.parenCount = @ + parenDelta(Trim(ls[f.j])),
                       !.j = @ + 1])
    ELSE [f EXCEPT !.functions =
                       Append(@, [name |-> f.functionName,
                                  startLine |-> f.i,
                                  endLine |-> f.endLine,
                                  signature |-> stripColon(f.signature),
                                  hasDocstring |-> f.hasDocstring]),
                   !.i = @ + 1,
                   !.pc = "outer"]

\* validatePythonSyntax, the for loop over i: its test, the blank-line test
\* and the start of the character loop.
lineStep(f, ls) ==
    IF f.i > Len(ls) THEN returns(f, finalChecks(f.counts))
    ELSE reading(ls, f.i, f,
             IF Trim(ls[f.i]) = <<>> THEN [f EXCEPT !.i = @ + 1]
             ELSE [f EXCEPT !.trimmed = Trim(ls[f.i]),
                            !.j = 1, !.inString = FALSE, !.stringChar = <<>>,
                            !.pc = "chars"])

\* validatePythonSyntax, one iteration of the character loop; once the loop
\* is left, the test for a line that opens a block.
charStep(f, ls) ==
    LET trimmed == f.trimmed
    IN  IF f.j <= Len(trimmed) /\ ~(~f.inString /\ trimmed[f.j] = "#")
        THEN LET char == trimmed[f.j]
                 isQuote == char = "\"" \/ char = "'"
                 opens == isQuote /\ ~f.inString
                 closes == isQuote /\ f.inString /\ <<char>> = f.stringChar
                 g == [f EXCEPT !.inString = IF opens THEN TRUE
                                             ELSE IF closes THEN FALSE ELSE @,
                                !.stringChar = IF opens THEN <<char>>
                                               ELSE IF closes THEN <<>> ELSE @,
                                !.j = @ + 1]
             IN  IF ~g.inString THEN [g EXCEPT !.counts = countChar(@, char)]
                 ELSE g
        ELSE IF EndsWith(trimmed, <<":">>) /\ ~StartsWith(trimmed, <<"#">>)
             THEN [f EXCEPT !.n = f.i + 1, !.pc = "next"]
        ELSE [f EXCEPT !.i = @ + 1, !.pc = "line"]

\* validatePythonSyntax, one iteration of the while loop that looks for the
\* next line that is not blank, and after it the indentation test.
nextStep(f, ls) ==
    IF f.n <= Len(ls)
    THEN reading(ls, f.n, f,
             IF Trim(ls[f.n]) = <<>> THEN [f EXCEPT !.n = @ + 1]
             ELSE IF getIndentLevel(ls[f.n]) <= getIndentLevel(ls[f.i])
                  THEN returns(f, Invalid(indentMessage(f.i, f.trimmed)))
             ELSE [f EXCEPT !.i = @ + 1, !.pc = "line"])
    ELSE [f EXCEPT !.i = @ + 1, !.pc = "line"]

\* extractCodeWithoutDocstrings, one iteration of the for-of loop.
stripStep(f, ls) ==
    IF f.i > Len(ls) THEN returns(f, Join(f.result))
    ELSE LET trimmed == Trim(ls[f.i])
             quote == IF StartsWith(trimmed, TripleDouble) THEN TripleDouble
                      ELSE TripleSingle
         IN  IF ~f.inDocstring /\ startsTriple(trimmed)
             THEN [f EXCEPT !.docstringQuote = quote,
                            !.inDocstring =
                                ~(Len(trimmed) > 3 /\ EndsWith(trimmed, quote)),
                            !.i = @ + 1]
             ELSE IF f.inDocstring /\ EndsWith(trimmed, f.docstringQuote)
             THEN [f EXCEPT !.inDocstring = FALSE, !.i = @ + 1]
             ELSE IF ~f.inDocstring
             THEN [f EXCEPT !.result = Append(@, ls[f.i]), !.i = @ + 1]
             ELSE [f EXCEPT !.i = @ + 1]

-----------------------------------------------------------------------------
(* MemStorage: the docstringGenerations map, kept as the sequence of its   *)
(* entries in insertion order (the order Map.values() yields).             *)

\* Map.prototype.set: an entry with the same key is replaced in place.
mapSet(map, record) ==
    IF \E k \in 1..Len(map) : map[k].id = record.id
    THEN [k \in 1..Len(map) |-> IF map[k].id = record.id THEN record ELSE map[k]]
    ELSE Append(map, record)

\* createDocstringGeneration with one identifier for every record.
createDocstringGenerationSameId(map, id, generation, createdAt) ==
    mapSet(map, [id |-> 1,
                 code |-> generation.code,
                 filename |-> generation.filename,
                 format |-> generation.format,
                 generatedDocstrings |-> generation.generatedDocstrings,
                 analysisMetadata |-> generation.analysisMetadata,
                 createdAt |-> createdAt])

\* createDocstringGeneration: the map after the call. id is the value of
\* randomUUID() and createdAt the value of new Date().
createDocstringGeneration(map, id, generation, createdAt) ==
    mapSet(map, [id |-> id,
                 code |-> generation.code,
                 filename |-> generation.filename,
                 format |-> generation.format,
                 generatedDocstrings |-> generation.generatedDocstrings,
                 analysisMetadata |-> generation.analysisMetadata,
                 createdAt |-> createdAt])

\* Map.prototype.has
mapHas(map, id) == \E k \in 1..Len(map) : map[k].id = id

\* getDocstringGeneration, for an id the map holds.
getDocstringGeneration(map, id) ==
    map[CHOOSE k \in 1..Len(map) : map[k].id = id]

\* Array.prototype.sort with the comparator of getRecentGenerations: the
\* entry at position a comes before the one at position b when it is newer,
\* or, the sort being stable, as new and earlier in the array.
sortsBefore(values, a, b) ==
    \/ values[a].createdAt > values[b].createdAt
    \/ values[a].createdAt = values[b].createdAt /\ a < b

\* Array.from(map.values()).sort((a, b) => b.createdAt - a.createdAt)
sortByCreatedAt(values) ==
    [k \in 1..Len(values) |->
        values[CHOOSE a \in 1..Len(values) :
                   Cardinality({b \in 1..Len(values) : sortsBefore(values, b, a)}) = k - 1]]

\* Array.prototype.slice(0, end): a negative end counts from the end of the
\* array.
slice(values, end) ==
    LET stop == IF end < 0 THEN MaxOf({Len(values) + end, 0})
                ELSE MinOf({end, Len(values)})
    IN  SubSeq(values, 1, stop)

\* getRecentGenerations: the array returned; the map is not written.
getRecentGenerations(map, limit) == slice(sortByCreatedAt(map), limit)

-----------------------------------------------------------------------------
(* generateDocstrings: the hosted model's answer is an input of the model. *)

\* Math.min(100, Math.max(0, result.qualityScore || 85))
qualityScore(raw) ==
    LET q == IF raw = 0 THEN 85 ELSE raw
    IN  IF q < 0 THEN 0 ELSE IF q > 100 THEN 100 ELSE q

\* The value generateDocstrings resolves with for the answer ai.
generationResult(fns, ai) ==
    [generatedDocstrings |-> ai.docstrings,
     analysisMetadata |-> [functionsCount |-> Len(fns),
                           qualityScore |-> qualityScore(ai.qualityScore),
                           tokensUsed |-> ai.tokensUsed]]

\* The answers of the hosted model that parse to a docstrings array.
AIAnswers ==
    { [docstrings |-> <<"docA">>, qualityScore |-> 0, tokensUsed |-> 0],
      [docstrings |-> <<"docB">>, qualityScore |-> 120, tokensUsed |-> 7] }

-----------------------------------------------------------------------------
(* registerRoutes: the request handlers. *)

\* The names of the requests in flight; a request takes the lowest free one.
Slots == 1..2

Formats == {"google", "numpy", "sphinx"}

\* docstringRequestSchema.parse(req.body) does not throw.
schemaAccepts(body) == Len(body.code) >= 1 /\ body.format \in Formats

NoMetadata == [functionsCount |-> 0, qualityScore |-> 0, tokensUsed |-> 0]

\* A response: the status and the fields of the JSON body the routes use.
\* id 0, the empty text and the empty sequence stand for an absent field.
Response(status, message, error) ==
    [status |-> status, message |-> message, error |-> error, id |-> 0,
     generatedDocstrings |-> <<>>, analysisMetadata |-> NoMetadata]

NoResponse == Response(0, "", <<>>)

\* POST /api/generate-docstring with the result of the validation ignored.
generateBeginIgnoresValidation(body) ==
    IF ~schemaAccepts(body)
    THEN [suspends |-> FALSE, calls |-> <<>>, functions |-> <<>>,
          response |-> Response(400, "Invalid request data", <<>>)]
    ELSE LET fns == parseFunctions(body.code)
         IN  IF Len(fns) = 0
             THEN [suspends |-> FALSE,
                   calls |-> <<"validatePythonSyntax", "parseFunctions">>,
                   functions |-> fns,
                   response |-> Response(400, "No functions found in the provided code", <<>>)]
             ELSE [suspends |-> TRUE,
                   calls |-> <<"validatePythonSyntax", "parseFunctions",
                               "generateDocstrings">>,
                   functions |-> fns,
                   response |-> NoResponse]

\* POST /api/generate-docstring with the empty-result test dropped.
generateBeginNoEmptyTest(body) ==
    IF ~schemaAccepts(body)
    THEN [suspends |-> FALSE, calls |-> <<>>, functions |-> <<>>,
          response |-> Response(400, "Invalid request data", <<>>)]
    ELSE LET syntaxValidation == validatePythonSyntax(body.code)
         IN  IF ~syntaxValidation.isValid
             THEN [suspends |-> FALSE, calls |-> <<"validatePythonSyntax">>,
                   functions |-> <<>>,
                   response |-> Response(400, "Invalid Python syntax",
                                         syntaxValidation.error)]
             ELSE [suspends |-> TRUE,
                   calls |-> <<"validatePythonSyntax", "parseFunctions",
                               "generateDocstrings">>,
                   functions |-> parseFunctions(body.code),
                   response |-> NoResponse]

\* POST /api/generate-docstring up to its first await: the calls made in
\* order, and either the response sent or the call to generateDocstrings
\* left pending (suspends).
generateBegin(body) ==
    IF ~schemaAccepts(body)
    THEN [suspends |-> FALSE, calls |-> <<>>, functions |-> <<>>,
          response |-> Response(400, "Invalid request data", <<>>)]
    ELSE LET syntaxValidation == validatePythonSyntax(body.code)
         IN  IF ~syntaxValidation.isValid
             THEN [suspends |-> FALSE, calls |-> <<"validatePythonSyntax">>,
                   functions |-> <<>>,
                   response |-> Response(400, "Invalid Python syntax",
                                         syntaxValidation.error)]
             ELSE LET fns == parseFunctions(body.code)
                  IN  IF Len(fns) = 0
                      THEN [suspends |-> FALSE,
                            calls |-> <<"validatePythonSyntax", "parseFunctions">>,
                            functions |-> fns,
                            response |-> Response(400,
                                "No functions found in the provided code", <<>>)]
                      ELSE [suspends |-> TRUE,
                            calls |-> <<"validatePythonSyntax", "parseFunctions",
                                        "generateDocstrings">>,
                            functions |-> fns,
                            response |-> NoResponse]

\* generateBegin for each request body of the model.
generateBeginOf == [body \in ConcurrentBodies |-> generateBegin(body)]

NoBody == [code |-> <<>>, format |-> "", filename |-> ""]

NoResult == [generatedDocstrings |-> <<>>, analysisMetadata |-> NoMetadata]

IdleRequest ==
    [pc |-> "idle", body |-> NoBody, functions |-> <<>>, calls |-> <<>>,
     result |-> NoResult, storedId |-> 0, response |-> NoResponse]

\* The handler of POST /api/generate-docstring runs for the request body up
\* to its first await, or to the response it sends before it.
GenerateBegin(r, body) ==
    /\ req[r].pc = "idle"
    /\ \A q \in Slots : q < r => req[q].pc # "idle"
    /\ started < MaxRequests
    /\ started' = started + 1
    /\ LET b == generateBeginOf[body]
       IN  req' = [req EXCEPT ![r] =
                      [pc |-> IF b.suspends THEN "awaitGenerate" ELSE "done",
                       body |-> body, functions |-> b.functions, calls |-> b.calls,
                       result |-> NoResult, storedId |-> 0, response |-> b.response]]
    /\ UNCHANGED <<docstringGenerations, nextUuid, clock, issued, lastResponse>>
    /\ UNCHANGED scanVars

\* generateDocstrings resolves with the answer ai; the handler goes on to
\* storage.createDocstringGeneration, which sets the map entry before its
\* promise is awaited. The clock reads now or one tick later.
GenerateResolved(r, ai, tick) ==
    /\ req[r].pc = "awaitGenerate"
    /\ LET result == generationResult(req[r].functions, ai)
           generation ==
               [code |-> req[r].body.code,
                filename |-> IF req[r].body.filename = "" THEN "untitled.py"
                             ELSE req[r].body.filename,
                format |-> req[r].body.format,
                generatedDocstrings |-> result.generatedDocstrings,
                analysisMetadata |-> result.analysisMetadata]
       IN  /\ docstringGenerations' =
                 createDocstringGeneration(docstringGenerations, nextUuid,
                                           generation, clock + tick)
           /\ req' = [req EXCEPT ![r].pc = "awaitStore",
                                 ![r].result = result,
                                 ![r].storedId = nextUuid,
                                 ![r].calls = Append(@, "createDocstringGeneration")]
    /\ nextUuid' = nextUuid + 1
    /\ clock' = clock + tick
    /\ UNCHANGED <<started, issued, lastResponse>>
    /\ UNCHANGED scanVars

\* GenerateRejected with the record written before the catch block answers.
GenerateRejectedStores(r) ==
    /\ req[r].pc = "awaitGenerate"
    /\ docstringGenerations' =
           createDocstringGeneration(docstringGenerations, nextUuid,
               [code |-> req[r].body.code, filename |-> "untitled.py",
                format |-> req[r].body.format, generatedDocstrings |-> <<>>,
                analysisMetadata |-> NoMetadata], clock)
    /\ nextUuid' = nextUuid + 1
    /\ req' = [req EXCEPT ![r].pc = "done",
                          ![r].response =
                              Response(500, "Failed to generate docstrings", <<>>)]
    /\ UNCHANGED <<clock, started, issued, lastResponse>>
    /\ UNCHANGED scanVars

\* generateDocstrings rejects (no answer, an answer that does not parse, or
\* one without a docstrings array): the catch block answers 500.
GenerateRejected(r) ==
    /\ req[r].pc = "awaitGenerate"
    /\ req' = [req EXCEPT ![r].pc = "done",
                          ![r].response =
                              Response(500, "Failed to generate docstrings", <<>>)]
    /\ UNCHANGED <<docstringGenerations, nextUuid, clock, started, issued, lastResponse>>
    /\ UNCHANGED scanVars

\* GenerateRespond with the identifier read from the newest record of the
\* store when the response is sent.
GenerateRespondNewestId(r) ==
    /\ req[r].pc = "awaitStore"
    /\ LET response ==
               [Response(200, "", <<>>) EXCEPT
                   !.id = docstringGenerations[Len(docstringGenerations)].id,
                   !.generatedDocstrings = req[r].result.generatedDocstrings,
                   !.analysisMetadata = req[r].result.analysisMetadata]
       IN  /\ req' = [req EXCEPT ![r].pc = "done", ![r].response = response]
           /\ issued' = Append(issued,
                  [id |-> response.id,
                   code |-> req[r].body.code,
                   format |-> req[r].body.format,
                   generatedDocstrings |-> response.generatedDocstrings,
                   analysisMetadata |-> response.analysisMetadata])
    /\ UNCHANGED <<docstringGenerations, nextUuid, clock, started, lastResponse>>
    /\ UNCHANGED scanVars

\* The promise of createDocstringGeneration is resolved: res.json sends the
\* id of the stored record with the docstrings and the metadata.
GenerateRespond(r) ==
    /\ req[r].pc = "awaitStore"
    /\ LET response ==
               [Response(200, "", <<>>) EXCEPT
                   !.id = req[r].storedId,
                   !.generatedDocstrings = req[r].result.generatedDocstrings,
                   !.analysisMetadata = req[r].result.analysisMetadata]
       IN  /\ req' = [req EXCEPT ![r].pc = "done", ![r].response = response]
           /\ issued' = Append(issued,
                  [id |-> response.id,
                   code |-> req[r].body.code,
                   format |-> req[r].body.format,
                   generatedDocstrings |-> response.generatedDocstrings,
                   analysisMetadata |-> response.analysisMetadata])
    /\ UNCHANGED <<docstringGenerations, nextUuid, clock, started, lastResponse>>
    /\ UNCHANGED scanVars

\* The client has its response; the next request may arrive.
GenerateEnd(r) ==
    /\ req[r].pc = "done"
    /\ req' = [req EXCEPT ![r] = IdleRequest]
    /\ UNCHANGED <<docstringGenerations, nextUuid, clock, started, issued, lastResponse>>
    /\ UNCHANGED scanVars

\* A response of a handler that does not suspend before it answers.
Served(route, text, status, message, calls, validationOf, functionsOf, id, found) ==
    [route |-> route, text |-> text, status |-> status, message |-> message,
     calls |-> calls, validation |-> validationOf, functions |-> functionsOf,
     id |-> id, generation |-> found]

NothingServed == Served("", <<>>, 0, "", <<>>, Valid, <<>>, 0, <<>>)

\* POST /api/upload-file for an upload with the given content; hasFile is
\* false when the request carries no file.
uploadFile(hasFile, content) ==
    IF ~hasFile
    THEN Served("upload-file", <<>>, 400, "No file uploaded", <<>>, Valid, <<>>, 0, <<>>)
    ELSE LET syntaxValidation == validatePythonSyntax(content)
         IN  IF ~syntaxValidation.isValid
             THEN Served("upload-file", content, 400, "Invalid Python syntax in uploaded file",
                         <<"validatePythonSyntax">>, syntaxValidation, <<>>, 0, <<>>)
             ELSE Served("upload-file", content, 200, "", <<"validatePythonSyntax">>,
                         syntaxValidation, <<>>, 0, <<>>)

\* POST /api/validate-python for the given code; the empty text is the
\* falsy code of a body without one.
validatePython(text) ==
    IF Len(text) = 0
    THEN Served("validate-python", text, 400, "Code is required", <<>>, Valid, <<>>, 0, <<>>)
    ELSE Served("validate-python", text, 200, "",
                <<"validatePythonSyntax", "parseFunctions">>,
                validatePythonSyntax(text), parseFunctions(text), 0, <<>>)

\* GET /api/generation/:id
getGeneration(map, id) ==
    IF ~mapHas(map, id)
    THEN Served("generation", <<>>, 404, "Generation not found", <<>>, Valid, <<>>, id, <<>>)
    ELSE Served("generation", <<>>, 200, "", <<>>, Valid, <<>>, id,
                <<getDocstringGeneration(map, id)>>)

\* The value of the decimal digit c.
digitValue(c) == CHOOSE d \in 0..9 : DigitChar[d + 1] = c

\* The number the digits of s read from position k on, after acc.
RECURSIVE digitsValue(_, _, _)
digitsValue(s, k, acc) ==
    IF k > Len(s) \/ s[k] \notin Digits THEN acc
    ELSE digitsValue(s, k + 1, 10 * acc + digitValue(s[k]))

\* parseInt(s) for a text without a radix prefix: leading whitespace is
\* skipped, a sign is read, then the longest run of digits; NaN when there
\* is no digit.
parseInt(s) ==
    LET t == SubSeq(s, getIndentLevel(s) + 1, Len(s))
        signed == t # <<>> /\ t[1] \in {"+", "-"}
        first == IF signed THEN 2 ELSE 1
        value == digitsValue(t, first, 0)
    IN  IF first > Len(t) \/ t[first] \notin Digits
        THEN [isNaN |-> TRUE, value |-> 0]
        ELSE [isNaN |-> FALSE,
              value |-> IF signed /\ t[1] = "-" THEN 0 - value ELSE value]

\* parseInt(req.query.limit as string) || 10; an absent parameter is
\* undefined, which parseInt reads as NaN.
limitOf(query) ==
    LET number == IF query.present THEN parseInt(query.text)
                  ELSE [isNaN |-> TRUE, value |-> 0]
    IN  IF number.isNaN \/ number.value = 0 THEN 10 ELSE number.value

\* GET /api/recent-generations
recentGenerations(map, query) ==
    Served("recent-generations", <<>>, 200, "", <<"getRecentGenerations">>,
           Valid, <<>>, 0, getRecentGenerations(map, limitOf(query)))

\* uploadFile for each upload of the model.
uploadFileOf == [upload \in Uploads |-> uploadFile(upload.hasFile, upload.content)]

\* validatePython for each text of the model.
validatePythonOf == [text \in ValidateTexts |-> validatePython(text)]

UploadFile(upload) ==
    /\ lastResponse' = uploadFileOf[upload]
    /\ UNCHANGED <<docstringGenerations, nextUuid, clock, req, started, issued>>
    /\ UNCHANGED scanVars

ValidatePython(text) ==
    /\ lastResponse' = validatePythonOf[text]
    /\ UNCHANGED <<docstringGenerations, nextUuid, clock, req, started, issued>>
    /\ UNCHANGED scanVars

GetGeneration(id) ==
    /\ lastResponse' = getGeneration(docstringGenerations, id)
    /\ UNCHANGED <<docstringGenerations, nextUuid, clock, req, started, issued>>
    /\ UNCHANGED scanVars

GetRecentGenerations(query) ==
    /\ lastResponse' = recentGenerations(docstringGenerations, query)
    /\ UNCHANGED <<docstringGenerations, nextUuid, clock, req, started, issued>>
    /\ UNCHANGED scanVars

-----------------------------------------------------------------------------
(* The specifications. *)

ScannerIdle ==
    /\ functions = <<>>
    /\ baseFunctions = <<>>
    /\ parsed = FALSE
    /\ pads = 0
    /\ validation = Valid
    /\ validated = FALSE
    /\ stripped = <<>>
    /\ strippedTwice = <<>>
    /\ extractions = 0
    /\ run = IdleRun

\* new MemStorage(), and no request received yet.
ServerIdle ==
    /\ docstringGenerations = <<>>
    /\ nextUuid = 1
    /\ clock = 0
    /\ req = [r \in Slots |-> IdleRequest]
    /\ started = 0
    /\ issued = <<>>
    /\ lastResponse = NothingServed

\* const functions = PythonParser.parseFunctions(code)
Parse ==
    /\ ~parsed
    /\ functions' = parseFunctions(code)
    /\ baseFunctions' = IF pads = 0 THEN parseFunctions(code) ELSE baseFunctions
    /\ parsed' = TRUE
    /\ UNCHANGED <<code, pads, validation, validated, extractVars, run>>
    /\ UNCHANGED serverVars

\* The caller presents the same text with one more trailing empty line.
AppendEmptyLine ==
    /\ parsed
    /\ pads < MaxPad
    /\ code' = code \o <<"\n">>
    /\ pads' = pads + 1
    /\ parsed' = FALSE
    /\ UNCHANGED <<functions, baseFunctions, validation, validated, extractVars,
                   run>>
    /\ UNCHANGED serverVars

\* const validation = PythonParser.validatePythonSyntax(code)
Validate ==
    /\ ~validated
    /\ validation' = validatePythonSyntax(code)
    /\ validated' = TRUE
    /\ UNCHANGED <<code, functions, baseFunctions, parsed, pads, extractVars, run>>
    /\ UNCHANGED serverVars

\* const stripped = PythonParser.extractCodeWithoutDocstrings(code)
Extract ==
    /\ extractions = 0
    /\ stripped' = extractCodeWithoutDocstrings(code)
    /\ extractions' = 1
    /\ UNCHANGED <<code, functions, baseFunctions, parsed, pads, validation,
                   validated, strippedTwice, run>>
    /\ UNCHANGED serverVars

\* The caller applies extractCodeWithoutDocstrings to its own result.
ExtractAgain ==
    /\ extractions = 1
    /\ strippedTwice' = extractCodeWithoutDocstrings(stripped)
    /\ extractions' = 2
    /\ UNCHANGED <<code, functions, baseFunctions, parsed, pads, validation,
                   validated, stripped, run>>
    /\ UNCHANGED serverVars

\* code.split('\n') for each text a call is made on.
linesOf == [text \in RunInputs |-> Split(text)]

\* A caller calls one of the three functions on the text.
Call(op) ==
    /\ run.pc = "idle"
    /\ run' = callStep(op, linesOf[code])
    /\ UNCHANGED textVars
    /\ UNCHANGED serverVars

StepOuter ==
    /\ run.pc = "outer"
    /\ run' = outerStep(run, run.lines)
    /\ UNCHANGED textVars
    /\ UNCHANGED serverVars

StepBodyEnd ==
    /\ run.pc = "bodyEnd"
    /\ run' = bodyEndStep(run, run.lines)
    /\ UNCHANGED textVars
    /\ UNCHANGED serverVars

StepSignature ==
    /\ run.pc = "signature"
    /\ run' = signatureStep(run, run.lines)
    /\ UNCHANGED textVars
    /\ UNCHANGED serverVars

StepLine ==
    /\ run.pc = "line"
    /\ run' = lineStep(run, run.lines)
    /\ UNCHANGED textVars
    /\ UNCHANGED serverVars

StepChar ==
    /\ run.pc = "chars"
    /\ run' = charStep(run, run.lines)
    /\ UNCHANGED textVars
    /\ UNCHANGED serverVars

StepNext ==
    /\ run.pc = "next"
    /\ run' = nextStep(run, run.lines)
    /\ UNCHANGED textVars
    /\ UNCHANGED serverVars

StepStrip ==
    /\ run.pc = "strip"
    /\ run' = stripStep(run, run.lines)
    /\ UNCHANGED textVars
    /\ UNCHANGED serverVars

\* parseFunctions applied to an input text, and to the text with newlines
\* appended.
InitParse == code \in ParseInputs /\ ScannerIdle /\ ServerIdle

NextParse == Parse \/ AppendEmptyLine

SpecParse == InitParse /\ [][NextParse]_vars

\* validatePythonSyntax applied to an input text.
InitValidate == code \in ValidateInputs /\ ScannerIdle /\ ServerIdle

NextValidate == Validate

SpecValidate == InitValidate /\ [][NextValidate]_vars

\* extractCodeWithoutDocstrings applied to an input text, and to its result.
InitExtract == code \in ExtractInputs /\ ScannerIdle /\ ServerIdle

NextExtract == Extract \/ ExtractAgain

SpecExtract == InitExtract /\ [][NextExtract]_vars

\* One call of one of the three functions, run one loop iteration at a
\* time; the engine runs a call that has started until it returns or throws.
InitRun == code \in RunInputs /\ ScannerIdle /\ ServerIdle

NextRun ==
    \/ \E op \in Operations : Call(op)
    \/ StepOuter
    \/ StepBodyEnd
    \/ StepSignature
    \/ StepLine
    \/ StepChar
    \/ StepNext
    \/ StepStrip

SpecRun == InitRun /\ [][NextRun]_vars /\ WF_vars(NextRun)

\* The server: requests arrive in any order and interleave at their awaits.
Init == code = <<>> /\ ScannerIdle /\ ServerIdle

Next ==
    \/ \E r \in Slots, body \in RequestBodies : GenerateBegin(r, body)
    \/ \E r \in Slots, ai \in AIAnswers, tick \in {0, 1} : GenerateResolved(r, ai, tick)
    \/ \E r \in Slots : GenerateRejected(r)
    \/ \E r \in Slots : GenerateRespond(r)
    \/ \E r \in Slots : GenerateEnd(r)
    \/ \E upload \in Uploads : UploadFile(upload)
    \/ \E text \in ValidateTexts : ValidatePython(text)
    \/ \E id \in RequestIds : GetGeneration(id)
    \/ \E query \in LimitQueries : GetRecentGenerations(query)

Spec == Init /\ [][Next]_vars

\* Requests to POST /api/generate-docstring in flight together, with
\* retrievals by identifier in between.
NextConcurrent ==
    \/ \E r \in Slots, body \in ConcurrentBodies : GenerateBegin(r, body)
    \/ \E r \in Slots, ai \in AIAnswers, tick \in {0, 1} : GenerateResolved(r, ai, tick)
    \/ \E r \in Slots : GenerateRejected(r)
    \/ \E r \in Slots : GenerateRespond(r)
    \/ \E r \in Slots : GenerateEnd(r)
    \/ \E id \in RequestIds : GetGeneration(id)

SpecConcurrent == Init /\ [][NextConcurrent]_vars

-----------------------------------------------------------------------------
(* What the claims say about parseFunctions, stated apart from the loops.  *)

lines == Split(code)

DescriptorsOf == {functions[k] : k \in 1..Len(functions)}

\* "def", whitespace, identifier, optional whitespace, "(" at the start of t:
\* the identifiers t can be read with (at most one).
DefNames(t) ==
    {SubSeq(t, pq[1], pq[2]) : pq \in
        {pq \in (1..Len(t)) \X (1..Len(t)) :
            /\ 5 <= pq[1] /\ pq[1] <= pq[2] /\ pq[2] < Len(t)
            /\ SubSeq(t, 1, 3) = <<"d", "e", "f">>
            /\ \A m \in 4..(pq[1] - 1) : t[m] \in Whitespace
            /\ t[pq[1]] \in IdStart
            /\ \A m \in pq[1]..pq[2] : t[m] \in IdChar
            /\ \E r \in (pq[2] + 1)..Len(t) :
                  /\ t[r] = "("
                  /\ \A m \in (pq[2] + 1)..(r - 1) : t[m] \in Whitespace}}

\* The 1-indexed numbers of the physical lines that are def lines.
DefLineNumbers == {i \in 1..Len(lines) : DefNames(Trim(lines[i])) # {}}

\* The count of ( minus the count of ) over the trimmed lines a..b.
RECURSIVE ParenBalance(_, _, _)
ParenBalance(ls, a, b) ==
    IF a > b THEN 0 ELSE parenDelta(Trim(ls[a])) + ParenBalance(ls, a + 1, b)

\* The trimmed lines a..b joined by single spaces.
RECURSIVE SpaceJoined(_, _, _)
SpaceJoined(ls, a, b) ==
    IF a = b THEN Trim(ls[a])
    ELSE Trim(ls[a]) \o <<" ">> \o SpaceJoined(ls, a + 1, b)

\* The last physical line of the header that opens at line i: the first line
\* k >= i at which no line remains, or the parentheses of lines i..k are
\* balanced and one of the lines i..k holds a colon.
HeaderLastLine(ls, i) ==
    MinOf({k \in i..Len(ls) :
              \/ k = Len(ls)
              \/ /\ ParenBalance(ls, i, k) <= 0
                 /\ \E m \in i..k : Includes(Trim(ls[m]), ":")})

StartsDocstring(line) ==
    StartsWith(Trim(line), TripleDouble) \/ StartsWith(Trim(line), TripleSingle)

\* C1: no signature returned by parseFunctions holds a colon character.
C1_SignatureHasNoColon ==
    parsed => \A d \in DescriptorsOf : ~Includes(d.signature, ":")

\* C2: appending trailing empty lines to the text changes no descriptor and
\* adds none: the result for the padded text is the result for the text.
C2_TrailingEmptyLinesIgnored ==
    (parsed /\ pads > 0) => functions = baseFunctions

\* C3: hasDocstring is true exactly when the line after the last physical
\* line of the reassembled header starts, once trimmed, with a triple quote.
C3_DocstringAfterHeader ==
    parsed => \A d \in DescriptorsOf :
        LET k == HeaderLastLine(lines, d.startLine)
        IN  d.hasDocstring <=> (k + 1 <= Len(lines) /\ StartsDocstring(lines[k + 1]))

\* C8: startLine <= endLine for every descriptor; in the body-end scan
\* endLine starts at startLine, no assignment lowers it (the one made at the
\* terminating line included), and the descriptor carries its last value.
C8_EndLineOnlyRaised ==
    parsed => \A d \in DescriptorsOf :
        LET tr == endLineTrace(lines, d.startLine)
        IN  /\ d.startLine <= d.endLine
            /\ tr[1] = d.startLine
            /\ \A m \in 1..(Len(tr) - 1) : tr[m] <= tr[m + 1]
            /\ d.endLine = tr[Len(tr)]

\* C8 witness: a descriptor whose scan ended at a terminating line, the
\* assignment made there raising endLine.
C8_Witness ==
    /\ parsed
    /\ \E d \in DescriptorsOf :
          LET tr == endLineTrace(lines, d.startLine)
          IN  /\ Len(tr) >= 2
              /\ tr[Len(tr) - 1] < tr[Len(tr)]
              /\ d.endLine + 1 <= Len(lines)
              /\ endsBody(lines[d.endLine + 1], getIndentLevel(lines[d.startLine]))

\* C9: one descriptor per def line, in source order, with that line's
\* number and identifier; def lines inside a body or a header included.
C9_OneDescriptorPerDefLine ==
    parsed =>
        /\ Len(functions) = Cardinality(DefLineNumbers)
        /\ {d.startLine : d \in DescriptorsOf} = DefLineNumbers
        /\ \A k \in 1..(Len(functions) - 1) :
              functions[k].startLine < functions[k + 1].startLine
        /\ \A d \in DescriptorsOf : d.name \in DefNames(Trim(lines[d.startLine]))

\* C9 witness: a def line inside the body of the function before it is
\* returned as a descriptor of its own.
C9_Witness ==
    /\ parsed
    /\ \E a, b \in DescriptorsOf :
          /\ a.startLine < b.startLine
          /\ b.startLine <= a.endLine
          /\ getIndentLevel(lines[a.startLine]) < getIndentLevel(lines[b.startLine])

Example4Text ==
    Join(<< <<"d", "e", "f", " ", "f", "(", "a", ",">>,
            <<" ", " ", " ", " ", " ", " ", "b", ")", ":">>,
            <<" ", " ", " ", " ", "p", "a", "s", "s">> >>)

Example4Signature == <<"d", "e", "f", " ", "f", "(", "a", ",", " ", "b", ")">>

\* C10: signature is the trimmed def line with the trimmed following lines
\* appended, space-joined, up to the last header line, less its first colon;
\* a balanced def line with a colon stays single-line; the header def f(a,
\* continued by b): gives def f(a, b).
C10_SignatureReassembly ==
    parsed =>
        /\ \A d \in DescriptorsOf :
              LET i == d.startLine
                  k == HeaderLastLine(lines, i)
              IN  /\ d.signature = ReplaceFirst(SpaceJoined(lines, i, k), ":")
                  /\ (parenDelta(Trim(lines[i])) = 0 /\ Includes(Trim(lines[i]), ":"))
                        => d.signature = ReplaceFirst(Trim(lines[i]), ":")
        /\ (pads = 0 /\ code = Example4Text)
              => functions[1].signature = Example4Signature

\* C10 witness: the two-line header of the example has been reassembled.
C10_Witness ==
    /\ parsed
    /\ pads = 0
    /\ code = Example4Text
    /\ Len(functions) = 1
    /\ functions[1].signature = Example4Signature

\* C11: hasDocstring is true exactly when a physical line follows the def
\* line and its trimmed text starts with a triple quote; the header found by
\* reassembly plays no part, so a def on the last line has hasDocstring
\* false and a header of several lines is judged by its second line.
C11_DocstringFromNextLine ==
    parsed => \A d \in DescriptorsOf :
        /\ d.hasDocstring <=>
              (d.startLine < Len(lines) /\ StartsDocstring(lines[d.startLine + 1]))
        /\ d.startLine = Len(lines) => ~d.hasDocstring

\* C11 witness: a header of two lines followed by a docstring line is judged
\* by its second header line, so hasDocstring is false.
C11_Witness ==
    /\ parsed
    /\ \E d \in DescriptorsOf :
          /\ HeaderLastLine(lines, d.startLine) = d.startLine + 1
          /\ d.startLine + 2 <= Len(lines)
          /\ StartsDocstring(lines[d.startLine + 2])
          /\ ~d.hasDocstring

\* The trimmed line starts with def and a space, class and a space, or
\* if __name__.
StartsNextUnit(line) ==
    \/ StartsWith(Trim(line), <<"d", "e", "f", " ">>)
    \/ StartsWith(Trim(line), <<"c", "l", "a", "s", "s", " ">>)
    \/ StartsWith(Trim(line), <<"i", "f", " ", "_", "_", "n", "a", "m", "e", "_", "_">>)

\* The lines after the def at line i that end its body: not blank, indented
\* no more deeply than the def line, and starting the next unit.
Terminators(ls, i) ==
    {t \in (i + 1)..Len(ls) :
        /\ Trim(ls[t]) # <<>>
        /\ getIndentLevel(ls[t]) <= getIndentLevel(ls[i])
        /\ StartsNextUnit(ls[t])}

\* The lines after line i that are not blank.
NonBlankAfter(ls, i) == {k \in (i + 1)..Len(ls) : Trim(ls[k]) # <<>>}

\* C17 as claimed: the scan stops at the first terminating line and endLine
\* equals the 1-indexed number of that line.
C17_EndLineAtTerminator ==
    parsed => \A d \in DescriptorsOf :
        Terminators(lines, d.startLine) # {} =>
            d.endLine = MinOf(Terminators(lines, d.startLine))

\* C17 as amended: the scan stops at the first terminating line, so endLine
\* is decided by the lines up to it alone, and endLine is the 1-indexed
\* number of the line before the terminating line.
C17_EndLineBeforeTerminator ==
    parsed => \A d \in DescriptorsOf :
        Terminators(lines, d.startLine) # {} =>
            d.endLine = MinOf(Terminators(lines, d.startLine)) - 1

\* C17 witness: a scan stopped at a terminating line that has a line that
\* is not blank after it.
C17_Witness ==
    /\ parsed
    /\ \E d \in DescriptorsOf :
          /\ Terminators(lines, d.startLine) # {}
          /\ MinOf(Terminators(lines, d.startLine)) < Len(lines)
          /\ d.endLine + 1 = MinOf(Terminators(lines, d.startLine))
          /\ NonBlankAfter(lines, d.endLine + 1) # {}

\* C18: without a terminating line endLine is the number of the last line
\* after the def line that is not blank, and startLine when there is none;
\* lines indented no more deeply than the def line do not end the range.
C18_EndLineWithoutTerminator ==
    parsed => \A d \in DescriptorsOf :
        Terminators(lines, d.startLine) = {} =>
            d.endLine = IF NonBlankAfter(lines, d.startLine) = {}
                        THEN d.startLine
                        ELSE MaxOf(NonBlankAfter(lines, d.startLine))

\* C18 witness: the range runs over a line indented no more deeply than the
\* def line and ends before a trailing blank line.
C18_Witness ==
    /\ parsed
    /\ \E d \in DescriptorsOf :
          /\ Terminators(lines, d.startLine) = {}
          /\ d.startLine < d.endLine
          /\ d.endLine < Len(lines)
          /\ getIndentLevel(lines[d.endLine]) <= getIndentLevel(lines[d.startLine])

\* C24: of two descriptors of one call, the later one with a def line
\* indented no more deeply than the earlier one's, the range of the earlier
\* ends before the def line of the later.
C24_RangeStopsBeforeLaterDef ==
    parsed =>
        \A a, b \in 1..Len(functions) :
            (/\ a < b
             /\ getIndentLevel(lines[functions[b].startLine])
                    <= getIndentLevel(lines[functions[a].startLine]))
                => functions[a].endLine < functions[b].startLine

-----------------------------------------------------------------------------
(* What the claims say about validatePythonSyntax.                         *)

\* Line n opens a block that is missing: its trimmed text ends with a colon
\* and does not start with #, and the first non-blank line after it is not
\* indented more deeply than it.
IndentDefectAt(ls, n) ==
    /\ Trim(ls[n]) # <<>>
    /\ Trim(ls[n])[Len(Trim(ls[n]))] = ":"
    /\ Trim(ls[n])[1] # "#"
    /\ \E m \in (n + 1)..Len(ls) :
          /\ Trim(ls[m]) # <<>>
          /\ \A b \in (n + 1)..(m - 1) : Trim(ls[b]) = <<>>
          /\ getIndentLevel(ls[m]) <= getIndentLevel(ls[n])

\* The reason starts by naming the 1-indexed line n.
NamesLine(reason, n) ==
    StartsWith(reason, <<"L", "i", "n", "e", " ">> \o Dec(n) \o <<":">>)

BracketReasons ==
    {UnmatchedParentheses, UnmatchedSquareBrackets, UnmatchedCurlyBraces}

\* C4 as claimed: every Invalid result names the offending 1-indexed line
\* together with the defect, for both kinds of defect.
C4_EveryReasonNamesLine ==
    (validated /\ ~validation.isValid) =>
        \E n \in 1..Len(lines) : NamesLine(validation.error, n)

\* C4 as amended: every Invalid result names its defect; the reason of a
\* missing indented block names the 1-indexed line that opens the block and
\* quotes its trimmed text, and the three reasons of unmatched parentheses,
\* square brackets and curly braces name no line.
C4_ReasonNamesDefect ==
    (validated /\ ~validation.isValid) =>
        \/ \E n \in 1..Len(lines) :
              /\ IndentDefectAt(lines, n)
              /\ validation.error = indentMessage(n, Trim(lines[n]))
              /\ NamesLine(validation.error, n)
        \/ /\ validation.error \in BracketReasons
           /\ \A n \in 1..Len(lines) :
                 ~IndentDefectAt(lines, n) /\ ~NamesLine(validation.error, n)

\* C4 witness: an Invalid result for unmatched brackets, after lines that
\* open no missing block.
C4_Witness ==
    /\ validated
    /\ ~validation.isValid
    /\ validation.error \in BracketReasons
    /\ Len(lines) >= 2

\* `Line n: Expected indented block after 'trimmed'` as the claims word it.
ExpectedBlockReason(n, trimmed) ==
    <<"L", "i", "n", "e", " ">> \o Dec(n) \o <<":", " ">>
      \o <<"E", "x", "p", "e", "c", "t", "e", "d", " ">>
      \o <<"i", "n", "d", "e", "n", "t", "e", "d", " ">>
      \o <<"b", "l", "o", "c", "k", " ">>
      \o <<"a", "f", "t", "e", "r", " ", "'">> \o trimmed \o <<"'">>

IndentDefects == {n \in 1..Len(lines) : IndentDefectAt(lines, n)}

Example5Text == Join(<< <<"i", "f", " ", "x", ":">>, <<"p", "a", "s", "s">> >>)

Example5Reason ==
      <<"L", "i", "n", "e", " ", "1", ":", " ", "E", "x", "p", "e", "c",
      "t", "e", "d", " ", "i", "n", "d", "e", "n", "t", "e", "d", " ", "b",
      "l", "o", "c", "k", " ", "a", "f", "t", "e", "r", " ", "'", "i", "f",
      " ", "x", ":", "'">>

\* C12: when some line opens a block that is missing, the result is Invalid
\* and its reason is Line n: Expected indented block after the trimmed text of
\* such a line, n being that line's 1-indexed number; if x: followed by pass
\* cites line 1.
C12_MissingBlockReported ==
    validated =>
        /\ IndentDefects # {} =>
              /\ ~validation.isValid
              /\ \E n \in IndentDefects :
                    validation.error = ExpectedBlockReason(n, Trim(lines[n]))
        /\ code = Example5Text => validation = Invalid(Example5Reason)

\* C12 witness: a missing block is reported where a blank line lies between
\* the colon-terminated line and the line that is not indented more deeply.
C12_Witness ==
    /\ validated
    /\ \E n \in IndentDefects :
          /\ n + 2 <= Len(lines)
          /\ Trim(lines[n + 1]) = <<>>
          /\ validation.error = ExpectedBlockReason(n, Trim(lines[n]))

\* The three balances once every line from line i on has been scanned.
RECURSIVE CountsOver(_, _, _)
CountsOver(ls, i, counts) ==
    IF i > Len(ls) THEN counts
    ELSE CountsOver(ls, i + 1, scanChars(Trim(ls[i]), 1, FALSE, <<>>, counts))

Balances == CountsOver(lines, 1, ZeroCounts)

Example6Text == <<"x", " ", "=", " ", "(", "1">>

\* C13: with no indentation defect the balances are checked in the order
\* parentheses, square brackets, curly braces and the reason is that of the
\* first balance that is not zero; an open parenthesis alone gives
\* Unmatched parentheses in code.
C13_BalancesCheckedInOrder ==
    (validated /\ IndentDefects = {}) =>
        /\ Balances.paren # 0 => validation = Invalid(UnmatchedParentheses)
        /\ (Balances.paren = 0 /\ Balances.bracket # 0) =>
              validation = Invalid(UnmatchedSquareBrackets)
        /\ (Balances.paren = 0 /\ Balances.bracket = 0 /\ Balances.brace # 0) =>
              validation = Invalid(UnmatchedCurlyBraces)
        /\ code = Example6Text => validation = Invalid(UnmatchedParentheses)

\* C13 witness: all three balances are off and the reason is the one of the
\* parentheses.
C13_Witness ==
    /\ validated
    /\ IndentDefects = {}
    /\ Balances.paren # 0
    /\ Balances.bracket # 0
    /\ Balances.brace # 0
    /\ validation = Invalid(UnmatchedParentheses)

\* Python's own reading of a text, for the claims that speak of well-formed
\* code: the text with every comment dropped and every string literal
\* replaced by one quote character. A backslash inside a string escapes the
\* character after it; a string opened by three quotes runs over lines until
\* three quotes of the same kind. ok is false for a string left open.
RECURSIVE Lex(_, _, _, _, _)
Lex(text, k, mode, quote, out) ==
    IF k > Len(text) THEN [ok |-> mode \in {"code", "comment"}, out |-> out]
    ELSE LET c == text[k]
             triple == k + 2 <= Len(text) /\ text[k + 1] = c /\ text[k + 2] = c
         IN  IF mode = "code"
             THEN IF c = "#" THEN Lex(text, k + 1, "comment", quote, out)
                  ELSE IF c \in {"\"", "'"}
                       THEN IF triple
                            THEN Lex(text, k + 3, "long", c, Append(out, "\""))
                            ELSE Lex(text, k + 1, "short", c, Append(out, "\""))
                  ELSE Lex(text, k + 1, "code", quote, Append(out, c))
             ELSE IF mode = "comment"
             THEN IF c = "\n" THEN Lex(text, k + 1, "code", quote, Append(out, c))
                  ELSE Lex(text, k + 1, "comment", quote, out)
             ELSE IF c = "\\" THEN Lex(text, k + 2, mode, quote, out)
             ELSE IF mode = "short"
             THEN IF c = quote THEN Lex(text, k + 1, "code", quote, out)
                  ELSE IF c = "\n" THEN [ok |-> FALSE, out |-> out]
                  ELSE Lex(text, k + 1, "short", quote, out)
             ELSE IF c = quote /\ triple THEN Lex(text, k + 3, "code", quote, out)
                  ELSE Lex(text, k + 1, "long", quote, out)

Openers == {"(", "[", "{"}

Closer(c) == IF c = "(" THEN ")" ELSE IF c = "[" THEN "]" ELSE "}"

\* Every bracket of t from position k on closes the bracket opened last, and
\* none is left open; open holds the brackets open so far.
RECURSIVE Nested(_, _, _)
Nested(t, k, open) ==
    IF k > Len(t) THEN open = <<>>
    ELSE IF t[k] \in Openers THEN Nested(t, k + 1, Append(open, t[k]))
    ELSE IF t[k] \in {")", "]", "}"}
         THEN /\ open # <<>>
              /\ Closer(open[Len(open)]) = t[k]
              /\ Nested(t, k + 1, SubSeq(open, 1, Len(open) - 1))
    ELSE Nested(t, k + 1, open)

\* Well-formed input in the words of the claim: balanced parentheses, square
\* brackets and curly braces, and every line that opens a block (its code
\* ends with a colon) followed by a line indented more deeply.
WellFormed(text) ==
    LET lexed == Lex(text, 1, "code", "", <<>>)
        ls == Split(lexed.out)
    IN  /\ lexed.ok
        /\ Nested(lexed.out, 1, <<>>)
        /\ \A n \in 1..Len(ls) :
              (Trim(ls[n]) # <<>> /\ Trim(ls[n])[Len(Trim(ls[n]))] = ":") =>
                  \E m \in (n + 1)..Len(ls) :
                      /\ Trim(ls[m]) # <<>>
                      /\ \A b \in (n + 1)..(m - 1) : Trim(ls[b]) = <<>>
                      /\ getIndentLevel(ls[m]) > getIndentLevel(ls[n])

\* C14: validatePythonSyntax returns Valid for every well-formed input,
\* comments that end with a colon and strings that hold escaped quotes or
\* bracket characters included.
C14_WellFormedIsValid ==
    (validated /\ WellFormed(code)) => validation.isValid

BracketChars == {"(", ")", "[", "]", "{", "}"}

\* The quote that opened the string still open just before position j of
\* the line t, or the empty string outside a string: a string is opened by
\* either quote and closed by the next quote of the same kind. k runs from 1
\* to j with the quote open before position k.
RECURSIVE OpenQuote(_, _, _, _)
OpenQuote(t, k, j, quote) ==
    IF k = j THEN quote
    ELSE IF quote = ""
         THEN OpenQuote(t, k + 1, j, IF t[k] \in {"\"", "'"} THEN t[k] ELSE "")
    ELSE OpenQuote(t, k + 1, j, IF t[k] = quote THEN "" ELSE quote)

\* Position j of t lies after a # met outside a string.
AfterComment(t, j) ==
    \E h \in 1..(j - 1) : t[h] = "#" /\ OpenQuote(t, 1, h, "") = ""

\* Position j of t is a bracket character that the claim counts: not
\* preceded by a backslash, outside a string, not after a comment marker.
CountedAsClaimed(t, j) ==
    /\ t[j] \in BracketChars
    /\ ~(j > 1 /\ t[j - 1] = "\\")
    /\ OpenQuote(t, 1, j, "") = ""
    /\ ~AfterComment(t, j)

\* The balances of the first j characters of the trimmed line t.
CountsOfPrefix(t, j) == scanChars(SubSeq(t, 1, j), 1, FALSE, <<>>, ZeroCounts)

\* The sum of the balances of every line scanned from a fresh string state.
RECURSIVE SumOfLines(_, _)
SumOfLines(ls, i) ==
    IF i > Len(ls) THEN ZeroCounts
    ELSE LET a == CountsOfPrefix(Trim(ls[i]), Len(Trim(ls[i])))
             b == SumOfLines(ls, i + 1)
         IN  [paren |-> a.paren + b.paren, bracket |-> a.bracket + b.bracket,
              brace |-> a.brace + b.brace]

\* C19: a character changes the balances exactly when it is an unescaped
\* bracket character outside a string and not after a comment marker; string
\* state does not pass from one line to the next; the result follows these
\* balances.
C19_OnlyUnescapedBracketsCounted ==
    validated =>
        /\ \A n \in 1..Len(lines) : \A j \in 1..Len(Trim(lines[n])) :
              LET t == Trim(lines[n])
              IN  IF CountedAsClaimed(t, j)
                  THEN CountsOfPrefix(t, j) = countChar(CountsOfPrefix(t, j - 1), t[j])
                  ELSE CountsOfPrefix(t, j) = CountsOfPrefix(t, j - 1)
        /\ IndentDefects = {} =>
              (validation.isValid <=> SumOfLines(lines, 1) = ZeroCounts)

\* C20: the reason is that of the lowest-numbered line with a missing
\* block, whatever the balances and whatever defects follow; a reason about
\* the balances is returned only when no line has a missing block.
C20_FirstMissingBlockWins ==
    validated =>
        /\ IndentDefects # {} =>
              validation =
                  Invalid(ExpectedBlockReason(MinOf(IndentDefects),
                                              Trim(lines[MinOf(IndentDefects)])))
        /\ validation.error \in BracketReasons => IndentDefects = {}

\* C20 witness: a missing block is reported for a line that follows a line
\* with an open bracket.
C20_Witness ==
    /\ validated
    /\ IndentDefects # {}
    /\ MinOf(IndentDefects) > 1
    /\ CountsOver(SubSeq(lines, 1, MinOf(IndentDefects)), 1, ZeroCounts) # ZeroCounts
    /\ validation.error =
          ExpectedBlockReason(MinOf(IndentDefects), Trim(lines[MinOf(IndentDefects)]))

\* The positions of the trimmed line t at which the character c is counted.
CountedAt(t, c) ==
    {j \in 1..Len(t) : t[j] = c /\ CountsOfPrefix(t, j) # CountsOfPrefix(t, j - 1)}

\* How many times the character c is counted in the lines from line i on.
RECURSIVE NumberCounted(_, _, _)
NumberCounted(ls, i, c) ==
    IF i > Len(ls) THEN 0
    ELSE Cardinality(CountedAt(Trim(ls[i]), c)) + NumberCounted(ls, i + 1, c)

\* Some counted closer of the line t comes before every counted opener of
\* its kind.
CloserFirst(t) ==
    \E j \in CountedAt(t, ")") : \A k \in CountedAt(t, "(") : j < k

\* The line t closes a parenthesis inside square brackets opened after it.
MisNested(t) ==
    \E a \in CountedAt(t, "("), b \in CountedAt(t, "["),
       c \in CountedAt(t, ")"), d \in CountedAt(t, "]") :
        a < b /\ b < c /\ c < d

CloserFirstText == <<")", "(">>

MisNestedText == <<"(", "[", ")", "]">>

\* C25: an input with no indentation defect in which as many ( as ) are
\* counted, as many [ as ] and as many { as } is reported Valid, whatever
\* the order and the nesting of the brackets; the texts )( and ([)] are
\* reported Valid.
C25_OnlyNetCountsJudged ==
    validated =>
        /\ (/\ IndentDefects = {}
            /\ NumberCounted(lines, 1, "(") = NumberCounted(lines, 1, ")")
            /\ NumberCounted(lines, 1, "[") = NumberCounted(lines, 1, "]")
            /\ NumberCounted(lines, 1, "{") = NumberCounted(lines, 1, "}"))
               => validation = Valid
        /\ code \in {CloserFirstText, MisNestedText} => validation = Valid

\* C25 witness: one line closes a parenthesis before it opens one, another
\* is mis-nested, and the text is reported Valid.
C25_Witness ==
    /\ validated
    /\ IndentDefects = {}
    /\ \E n \in 1..Len(lines) : CloserFirst(Trim(lines[n]))
    /\ \E n \in 1..Len(lines) : MisNested(Trim(lines[n]))
    /\ validation = Valid

-----------------------------------------------------------------------------
(* What the claims say about extractCodeWithoutDocstrings.                 *)

\* C15: the result of one application holds no line whose trimmed text
\* starts with a triple quote, and a second application returns it unchanged.
C15_ExtractIdempotent ==
    /\ extractions >= 1 =>
          \A k \in 1..Len(Split(stripped)) : ~StartsDocstring(Split(stripped)[k])
    /\ extractions = 2 => strippedTwice = stripped

\* C15 witness: a docstring of several lines was removed, text was left, and
\* the second application has returned.
C15_Witness ==
    /\ extractions = 2
    /\ stripped # <<>>
    /\ Len(Split(stripped)) + 2 <= Len(lines)
    /\ \E k \in 1..Len(lines) : Trim(lines[k]) = TripleDouble

\* The lines of ls at the positions of the set S, from position k on, in
\* the order of ls.
RECURSIVE Pick(_, _, _)
Pick(ls, S, k) ==
    IF k > Len(ls) THEN <<>>
    ELSE (IF k \in S THEN <<ls[k]>> ELSE <<>>) \o Pick(ls, S, k + 1)

\* C21: the result is the lines of the input at some set of positions, in
\* their order and each as it stands in the input, joined by newlines; an
\* input with no line whose trimmed text starts with a triple quote is
\* returned unchanged.
C21_ResultIsSubsequence ==
    extractions >= 1 =>
        /\ \E S \in SUBSET (1..Len(lines)) : stripped = Join(Pick(lines, S, 1))
        /\ (\A k \in 1..Len(lines) : ~StartsDocstring(lines[k])) => stripped = code

\* C21 witness: a one-line docstring was dropped from the middle of three
\* lines, and the indented line after it was kept with its indentation.
C21_Witness ==
    /\ extractions >= 1
    /\ Len(lines) = 3
    /\ StartsDocstring(lines[2])
    /\ getIndentLevel(lines[3]) > 0
    /\ Trim(lines[3]) # <<>>
    /\ stripped = Join(<<lines[1], lines[3]>>)

\* The delimiter a trimmed opening line starts with.
OpeningDelimiter(trimmed) ==
    IF StartsWith(trimmed, TripleDouble) THEN TripleDouble ELSE TripleSingle

\* The scanner after the first k lines, as C22 describes it: whether it is
\* inside a docstring, and the delimiter that opened it.
RECURSIVE Inside(_, _)
Inside(ls, k) ==
    IF k = 0 THEN [inside |-> FALSE, delimiter |-> <<>>]
    ELSE LET before == Inside(ls, k - 1)
             trimmed == Trim(ls[k])
         IN  IF ~before.inside /\ StartsDocstring(ls[k])
             THEN [inside |-> ~(/\ Len(trimmed) > 3
                                /\ EndsWith(trimmed, OpeningDelimiter(trimmed))),
                   delimiter |-> OpeningDelimiter(trimmed)]
             ELSE IF before.inside /\ EndsWith(trimmed, before.delimiter)
             THEN [before EXCEPT !.inside = FALSE]
             ELSE before

\* Line k opens a docstring, or lies inside one.
Suppressed(ls, k) ==
    \/ Inside(ls, k - 1).inside
    \/ StartsDocstring(ls[k])

\* C22: a line that starts with a triple quote outside a docstring is
\* suppressed and opens one unless it is longer than three characters and
\* ends with the same delimiter; inside, every line is suppressed, and only
\* a line that ends with the opening delimiter closes the docstring.
C22_DocstringLinesSuppressed ==
    extractions >= 1 =>
        stripped = Join(Pick(lines, {k \in 1..Len(lines) : ~Suppressed(lines, k)}, 1))

\* C22 witness: three double quotes opened a docstring, a line of three
\* single quotes did not close it, and the line after it was suppressed too.
C22_Witness ==
    /\ extractions >= 1
    /\ Len(lines) = 3
    /\ Trim(lines[1]) = TripleDouble
    /\ Trim(lines[2]) = TripleSingle
    /\ Trim(lines[3]) # <<>>
    /\ ~StartsDocstring(lines[3])
    /\ ~EndsWith(Trim(lines[3]), TripleDouble)
    /\ stripped = <<>>

-----------------------------------------------------------------------------
(* What the claims say about the three functions as running code.          *)

\* What the function named op returns for the text.
ResultOf(op, text) ==
    IF op = "parseFunctions" THEN parseFunctions(text)
    ELSE IF op = "validatePythonSyntax" THEN validatePythonSyntax(text)
    ELSE extractCodeWithoutDocstrings(text)

\* The parentheses of the header that opens at line i never balance, or no
\* line from line i on holds a colon.
HeaderNeverCompletes(ls, i) ==
    \/ \A k \in i..Len(ls) : ParenBalance(ls, i, k) > 0
    \/ \A k \in i..Len(ls) : ~Includes(Trim(ls[k]), ":")

\* parseFunctions has just pushed the descriptor of the def at line i - 1.
JustPushed ==
    /\ run.op = "parseFunctions"
    /\ run.pc \in {"outer", "returned"}
    /\ run.functions # <<>>
    /\ run.functions[Len(run.functions)].startLine = run.i - 1

\* Reassembly ends at end of input for a header that never completes, and
\* at once, nothing appended, for a def on the last line.
ReassemblyEnds ==
    JustPushed =>
        LET d == run.functions[Len(run.functions)]
        IN  /\ HeaderNeverCompletes(lines, d.startLine) => run.j = Len(lines) + 1
            /\ d.startLine = Len(lines) =>
                  /\ run.j = d.startLine + 1
                  /\ d.signature = ReplaceFirst(Trim(lines[d.startLine]), ":")

\* C16: each of the three functions, once called, returns a value and does
\* not throw, whatever the text; the value is the result of the function;
\* reassembly ends at end of input for a def whose parentheses never balance
\* or whose header holds no colon, and at once for a def on the last line.
C16_ScannerAlwaysReturns ==
    /\ <>(run.pc = "returned")
    /\ [](run.pc # "raised")
    /\ [](run.pc = "returned" => run.value = ResultOf(run.op, code))
    /\ []ReassemblyEnds

\* C16 witness: parseFunctions has returned for a text whose first line is a
\* def with a header that never completes and two more lines after it.
C16_Witness ==
    /\ run.op = "parseFunctions"
    /\ run.pc = "returned"
    /\ Len(lines) >= 3
    /\ run.value # <<>>
    /\ run.value[1].startLine = 1
    /\ HeaderNeverCompletes(lines, 1)

-----------------------------------------------------------------------------
(* What the claims say about the request handlers and the store.           *)

\* The texts the requests of the model carry, with what the scanner makes of
\* each.
ServerTexts ==
    {body.code : body \in ConcurrentBodies} \cup {upload.content : upload \in Uploads}
        \cup ValidateTexts

ValidationOf == [text \in ServerTexts |-> validatePythonSyntax(text)]

FunctionsOf == [text \in ServerTexts |-> parseFunctions(text)]

\* The position of the first call of the given name, or 0.
FirstCall(calls, name) ==
    IF \E k \in 1..Len(calls) : calls[k] = name
    THEN MinOf({k \in 1..Len(calls) : calls[k] = name})
    ELSE 0

\* validatePythonSyntax is called before parseFunctions, if that is called.
ValidatesFirst(calls) ==
    FirstCall(calls, "parseFunctions") # 0 =>
        /\ FirstCall(calls, "validatePythonSyntax") # 0
        /\ FirstCall(calls, "validatePythonSyntax") < FirstCall(calls, "parseFunctions")

\* The generate-docstring requests that got past the schema.
Accepted == {r \in Slots : req[r].pc # "idle" /\ schemaAccepts(req[r].body)}

\* POST /api/generate-docstring: validation first; a failed validation is
\* answered 400 with the validator's reason and nothing else is called.
GenerateStopsAtInvalid ==
    \A r \in Accepted :
        /\ ValidatesFirst(req[r].calls)
        /\ ~ValidationOf[req[r].body.code].isValid =>
              /\ req[r].pc = "done"
              /\ req[r].calls = <<"validatePythonSyntax">>
              /\ req[r].response.status = 400
              /\ req[r].response.message = "Invalid Python syntax"
              /\ req[r].response.error = ValidationOf[req[r].body.code].error

\* POST /api/upload-file: a failed validation is answered 400 with the
\* validator's reason; parseFunctions is never called.
UploadStopsAtInvalid ==
    (lastResponse.route = "upload-file" /\ lastResponse.calls # <<>>) =>
        /\ lastResponse.calls = <<"validatePythonSyntax">>
        /\ lastResponse.validation = ValidationOf[lastResponse.text]
        /\ ~lastResponse.validation.isValid =>
              /\ lastResponse.status = 400
              /\ lastResponse.message = "Invalid Python syntax in uploaded file"

\* POST /api/validate-python stops at a failed validation as the other two
\* handlers do.
ValidatePythonStopsAtInvalid ==
    (lastResponse.route = "validate-python" /\ lastResponse.calls # <<>>) =>
        /\ ValidatesFirst(lastResponse.calls)
        /\ lastResponse.validation = ValidationOf[lastResponse.text]
        /\ ~lastResponse.validation.isValid =>
              /\ lastResponse.status = 400
              /\ FirstCall(lastResponse.calls, "parseFunctions") = 0

\* POST /api/validate-python calls parseFunctions after the validator
\* whatever the validator says, and answers 200 with both results.
ValidatePythonReportsBoth ==
    (lastResponse.route = "validate-python" /\ lastResponse.calls # <<>>) =>
        /\ lastResponse.calls = <<"validatePythonSyntax", "parseFunctions">>
        /\ lastResponse.status = 200
        /\ lastResponse.validation = ValidationOf[lastResponse.text]
        /\ lastResponse.functions = FunctionsOf[lastResponse.text]

\* C5 as claimed: in the three handlers that use the scanner the validator
\* is called before parseFunctions, and a failed validation is answered with
\* the validator's reason without parseFunctions or a later step.
C5_AllHandlersStopAtInvalid ==
    GenerateStopsAtInvalid /\ UploadStopsAtInvalid /\ ValidatePythonStopsAtInvalid

\* C5 as amended: generate-docstring and upload-file answer a failed
\* validation with 400 and the validator's reason and call nothing after the
\* validator; validate-python calls the validator first but calls
\* parseFunctions whatever the outcome and answers 200 with isValid, the
\* validator's reason and the functions found.
C5_ValidationBeforeParsing ==
    GenerateStopsAtInvalid /\ UploadStopsAtInvalid /\ ValidatePythonReportsBoth

\* C5 witness: a generate-docstring request stopped at a failed validation,
\* and validate-python has answered for a text the validator rejects.
C5_Witness ==
    /\ \E r \in Accepted :
          /\ req[r].pc = "done"
          /\ req[r].response.message = "Invalid Python syntax"
    /\ lastResponse.route = "validate-python"
    /\ lastResponse.calls # <<>>
    /\ ~lastResponse.validation.isValid

StoredRecords == {docstringGenerations[k] : k \in 1..Len(docstringGenerations)}

\* C6: a generate-docstring request whose accepted code has no def line is
\* answered 400 "No functions found in the provided code"; neither
\* generateDocstrings nor the store is called for it, and no record holds
\* such a code.
C6_NoFunctionsIsClientError ==
    /\ \A r \in Accepted :
          (/\ ValidationOf[req[r].body.code].isValid
           /\ FunctionsOf[req[r].body.code] = <<>>) =>
              /\ req[r].pc = "done"
              /\ req[r].response =
                    Response(400, "No functions found in the provided code", <<>>)
              /\ FirstCall(req[r].calls, "generateDocstrings") = 0
              /\ FirstCall(req[r].calls, "createDocstringGeneration") = 0
              /\ req[r].storedId = 0
    /\ \A g \in StoredRecords : FunctionsOf[g.code] # <<>>

\* C6 witness: a request with accepted code and no function was answered.
C6_Witness ==
    \E r \in Accepted :
        /\ ValidationOf[req[r].body.code].isValid
        /\ FunctionsOf[req[r].body.code] = <<>>
        /\ req[r].response.status = 400

\* The record matches what the response carried and the request sent.
SameGeneration(g, x) ==
    /\ g.id = x.id
    /\ g.code = x.code
    /\ g.format = x.format
    /\ g.generatedDocstrings = x.generatedDocstrings
    /\ g.analysisMetadata = x.analysisMetadata

\* Every identifier a response carried retrieves the record of its request.
IssuedAreStored ==
    \A k \in 1..Len(issued) :
        /\ mapHas(docstringGenerations, issued[k].id)
        /\ SameGeneration(getDocstringGeneration(docstringGenerations, issued[k].id),
                          issued[k])

\* No step evicts, overwrites or modifies a stored record.
RecordsKept ==
    \A k \in 1..Len(docstringGenerations) :
        /\ k <= Len(docstringGenerations')
        /\ docstringGenerations'[k] = docstringGenerations[k]

\* GET /api/generation/:id answers 200 with the stored record for an
\* identifier randomUUID has handed out, and 404 for any other.
RetrievalAnswers ==
    \A id \in RequestIds : GetGeneration(id) =>
        IF id < nextUuid
        THEN /\ lastResponse'.status = 200
             /\ lastResponse'.generation =
                   <<getDocstringGeneration(docstringGenerations, id)>>
             /\ \A k \in 1..Len(issued) : issued[k].id = id =>
                   SameGeneration(lastResponse'.generation[1], issued[k])
        ELSE /\ lastResponse'.status = 404
             /\ lastResponse'.generation = <<>>

\* C7: once a generate-docstring response carried identifier X, every later
\* retrieval by X returns the record of that request whatever is served in
\* between; records are never evicted, overwritten or modified; an
\* identifier never handed out yields 404.
C7_StoredRecordsRetrievable ==
    /\ []IssuedAreStored
    /\ [][RecordsKept /\ RetrievalAnswers]_vars

\* C7 witness: the first record is retrieved by its identifier after a
\* second request has been stored.
C7_Witness ==
    /\ Len(issued) >= 1
    /\ Len(docstringGenerations) >= 2
    /\ lastResponse.route = "generation"
    /\ lastResponse.status = 200
    /\ lastResponse.id = issued[1].id
    /\ SameGeneration(lastResponse.generation[1], issued[1])

\* Request r has just been answered with an error.
AnsweredWithError(r) ==
    /\ req[r].pc # "done"
    /\ req'[r].pc = "done"
    /\ req'[r].response.status # 200

\* generateDocstrings has just returned successfully for request r.
JustResolved(r) ==
    /\ req[r].pc = "awaitGenerate"
    /\ req'[r].pc = "awaitStore"
    /\ "generateDocstrings" = req[r].calls[Len(req[r].calls)]

\* C23: the store changes only in a step in which generateDocstrings has
\* returned successfully for a request, and then by one record of that
\* request; a request that fails at the schema, the syntax validation, the
\* empty-function test or the AI call leaves the store as it was and is
\* answered with status 400 or 500 and no id.
C23_RecordOnlyAfterGeneration ==
    [][/\ docstringGenerations' # docstringGenerations =>
              \E r \in Slots :
                  /\ JustResolved(r)
                  /\ Len(docstringGenerations') = Len(docstringGenerations) + 1
                  /\ SubSeq(docstringGenerations', 1, Len(docstringGenerations))
                         = docstringGenerations
                  /\ docstringGenerations'[Len(docstringGenerations')].code
                         = req[r].body.code
       /\ \A r \in Slots :
              AnsweredWithError(r) =>
                  /\ docstringGenerations' = docstringGenerations
                  /\ req'[r].storedId = 0
                  /\ req'[r].response.status \in {400, 500}
                  /\ req'[r].response.id = 0
                  /\ (req'[r].response.status = 400) =
                         ("generateDocstrings" \notin
                              {req'[r].calls[k] : k \in 1..Len(req'[r].calls)})
      ]_vars

\* C23 witness: one request failed at the AI call and another at the
\* syntax validation, both are answered, and the store is empty.
C23_Witness ==
    /\ \E r \in Slots :
           /\ req[r].pc = "done"
           /\ req[r].response.status = 500
           /\ req[r].calls[Len(req[r].calls)] = "generateDocstrings"
    /\ \E r \in Slots :
           /\ req[r].pc = "done"
           /\ req[r].response.status = 400
           /\ req[r].calls = <<"validatePythonSyntax">>
    /\ docstringGenerations = <<>>

\* The requests that have passed the store write.
Stored == {r \in Slots : req[r].storedId # 0}

\* The request in slot r is answered with the record of its own code and
\* docstrings: the identifier of its response retrieves them.
AnsweredWithOwnRecord(r) ==
    /\ req[r].response.status = 200
    /\ req[r].response.id = req[r].storedId
    /\ mapHas(docstringGenerations, req[r].response.id)
    /\ LET g == getDocstringGeneration(docstringGenerations, req[r].response.id)
       IN  /\ g.code = req[r].body.code
           /\ g.generatedDocstrings = req[r].result.generatedDocstrings
           /\ g.generatedDocstrings = req[r].response.generatedDocstrings

\* C26: of two generate-docstring requests in flight together, each one that
\* has passed the store write has a record of its own in the store, with its
\* code and its docstrings, under an identifier different from the other's;
\* once answered, the identifier of its response retrieves that record.
C26_InterleavedRequestsKeepOwnRecords ==
    /\ \A r \in Stored :
          /\ mapHas(docstringGenerations, req[r].storedId)
          /\ LET g == getDocstringGeneration(docstringGenerations, req[r].storedId)
             IN  /\ g.code = req[r].body.code
                 /\ g.generatedDocstrings = req[r].result.generatedDocstrings
          /\ req[r].pc = "done" => AnsweredWithOwnRecord(r)
    /\ \A r, q \in Stored : r # q => req[r].storedId # req[q].storedId

\* C26 witness: the request in slot 2 arrived while the one in slot 1 was
\* waiting and was stored before it; both are answered, with different
\* identifiers, different code and different docstrings.
C26_Witness ==
    /\ started = 2
    /\ req[1].pc = "done"
    /\ req[2].pc = "done"
    /\ req[2].storedId # 0
    /\ req[2].storedId < req[1].storedId
    /\ req[1].body.code # req[2].body.code
    /\ req[1].result.generatedDocstrings # req[2].result.generatedDocstrings
    /\ AnsweredWithOwnRecord(1)
    /\ AnsweredWithOwnRecord(2)

\* The position of the record with the identifier id in the store: records
\* are stored in the order they are created.
CreationOrder(id) ==
    CHOOSE k \in 1..Len(docstringGenerations) : docstringGenerations[k].id = id

\* The limit the route is said to use for the query.
ClaimedLimit(query) ==
    IF ~query.present \/ parseInt(query.text).isNaN \/ parseInt(query.text).value = 0
    THEN 10
    ELSE parseInt(query.text).value

\* The records are stored ones, each created after every record that
\* follows it.
NewestFirst(got) ==
    /\ \A a \in 1..Len(got) :
          /\ mapHas(docstringGenerations, got[a].id)
          /\ got[a] = getDocstringGeneration(docstringGenerations, got[a].id)
    /\ \A a, b \in 1..Len(got) :
          a < b => CreationOrder(got[a].id) > CreationOrder(got[b].id)

\* C27: GET /api/recent-generations answers with getRecentGenerations for the
\* limit of the query, 10 when the parameter is absent or does not parse to
\* a number other than zero; for a positive limit the answer holds
\* min(limit, n) of the n stored records, each created after every record
\* that follows it; the store is not changed.
C27_RecentGenerationsNewestFirst ==
    [][\A query \in LimitQueries :
          GetRecentGenerations(query) =>
              LET limit == ClaimedLimit(query)
                  got == lastResponse'.generation
              IN  /\ docstringGenerations' = docstringGenerations
                  /\ got = getRecentGenerations(docstringGenerations, limit)
                  /\ limit > 0 =>
                        /\ Len(got) = MinOf({limit, Len(docstringGenerations)})
                        /\ NewestFirst(got)
      ]_vars

=============================================================================
